---- MODULE Spec2Model ----
(***************************************************************************)
(* Two-stage smoke -> fire confirmation pipeline of                        *)
(* jetson_yolo11_two_stage_mjpeg_server_v5_4_telegram.py:                  *)
(*   - run_loop: per-frame smoke gate, Telegram smoke alert, result drain, *)
(*     hold timer, burst trigger and job submission;                       *)
(*   - fire_worker_main: the fire worker process behind job_q / out_q;     *)
(*   - TelegramAlerter: rate-limited alert queue with its sender thread.   *)
(* Times are whole seconds, confidences are whole percents.                *)
(***************************************************************************)
EXTENDS Integers, Sequences, FiniteSets, TLC

\* ---------------------------------------------------------------- bounds
\* First clock value read by the program.  The timestamps of the program
\* start at 0.0 and time.time() is far above every cooldown, so the first
\* cooldown test of every kind passes; StartTime keeps that true.
StartTime == 20
\* How far the clock runs past StartTime.
Horizon == 3
MaxTime == StartTime + Horizon
\* Longest run of consecutive smoke frames that is explored.
MaxConsec == 4
\* How far the clock runs past StartTime when it moves a whole cooldown at a time.
LongHorizon == 6
LongMaxTime == StartTime + LongHorizon

\* --------------------------------------------------- configuration (args)
SmokeConsecN == 3
CheckCooldown == 3
FireHold == 3
FireConfirm == 2
BurstFrames == 6
BurstStride == 2
SnapCount == 1
\* deque(maxlen=...) of run_loop, explored with a short ring
RingMaxLen == 3
JobQMax == 1
OutQMax == 2
\* scores a smoke / fire detection that passed the filters can carry
SmokeScores == {40, 90}
\* how many smoke boxes survive the filters on a frame with smoke
BoxCounts == {2}
FireScores == {80}

Min(a, b) == IF a < b THEN a ELSE b
Max(a, b) == IF a > b THEN a ELSE b

VARIABLES
  clock,             \* time.time()
  pc,                \* position of run_loop inside one iteration
  now,               \* run_loop: now
  ring,              \* run_loop: len(ring)
  smoke_boxes,       \* run_loop: len(smoke_dets)
  smoke_max,         \* run_loop: smoke_max
  smoke_consec,      \* run_loop: smoke_consec
  smoke_confirmed,   \* run_loop: smoke_confirmed
  smoke_alert_sent,  \* run_loop: smoke_alert_sent
  should_check_fire, \* run_loop: should_check_fire
  last_fire_check,   \* run_loop: last_fire_check
  fire_hold_until,   \* run_loop: fire_hold_until
  last_fire_confirm, \* run_loop: last_fire_confirm
  last_fire_snapshot,\* run_loop: last_fire_snapshot
  fire_hit,          \* run_loop: fire_hit
  fire_best,         \* run_loop: fire_best
  has_fire,          \* run_loop: has_fire
  job_q,             \* mp.Queue(maxsize=1)
  out_q,             \* mp.Queue(maxsize=2)
  wpc,               \* position of fire_worker_main
  wjob,              \* fire_worker_main: job
  wres,              \* fire_worker_main: the Result about to be put
  telegram_alerter,  \* run_loop: telegram_alerter is an object (not None)
  tg,                \* the TelegramAlerter object of run_loop
  spc,               \* position of TelegramAlerter._send_worker
  stask,             \* _send_worker: task
  callers,           \* threads inside send_smoke_alert / send_fire_alert
  attempted,         \* history: this iteration built a Job and tried to submit it
  accepted,          \* history: job_q took the Job of this iteration
  lfc_start,         \* history: last_fire_check when should_check_fire was computed
  last_attempt,      \* history: time of the latest submission attempt (0: none)
  t_confirm,         \* history: time of the latest drain of a confirming Result (0: none)
  alert_tried,       \* history: this iteration called send_smoke_alert
  alert_ret,         \* history: what that call returned
  run_alerts,        \* history: alerts accepted in the current run of smoke frames
  hist,              \* history: has_smoke of the latest frames, newest last
  w_owed,            \* history: Jobs taken by the worker minus Results emitted for them
  acc,               \* history: per kind, call time of the latest accepted alert (0: none)
  passed,            \* history: per kind, call time of the latest call that passed the cooldown test
  last_ret,          \* history: what the latest call of send_*_alert that returned gave
  enq,               \* history: the accepted tasks whose delivery was not attempted yet, in order
  t_drain,           \* history: time of the latest drain of a successful Result (0: none)
  d_start,           \* history: t_drain when the iteration began
  drained_ok,        \* history: this iteration drained a successful Result
  r_owed,            \* history: the Results put and not yet taken by the loop, in order
  s_ring,            \* burst sampler on its own: the ring, oldest first (frame numbers)
  s_seen,            \* burst sampler on its own: per captured frame, whether it encoded
  s_burst,           \* burst sampler on its own: the latest burst built and its inputs
  roi,               \* ROI utilities on their own: the latest call and its result
  scored,            \* burst scoring on its own: the latest burst and its hit count and best
  status,            \* the status dict served by /api/status
  snaps,             \* the files snap_<i>.jpg in snap_dir: which Job's image each holds
  wtg,               \* fire_worker_main: tg, the TelegramAlerter of the worker process
  wspc,              \* position of the _send_worker thread of that alerter
  wstask,            \* that thread: task
  w_last,            \* history: what the worker did with the Job whose Result it is about to put
  w_best_job,        \* history: meta.ts of the latest Job processed that had a best detection (0: none)
  w_acc,             \* history: time of the latest fire alert the alerter of the worker accepted (0: none)
  doc,               \* the per-tick keys of the status dict, as "Update status" assigns them one by one
  doc_tick,          \* history: per key of doc, the iteration that assigned it (0: import time)
  tick,              \* history: the iteration of run_loop that updates the status, counted round 1..3
  status_lock,       \* status_lock: who holds it ("free", "main", "api")
  upos,              \* run_loop inside "Update status": the next assignment, as a place in WriteOrder
  seen,              \* api_status: what jsonify(status) serialised while the handler holds the lock
  stop_st,           \* the thread that calls TelegramAlerter.stop(): its position, and whether put_nowait(None) raised
  nms,               \* nms_xyxy on its own: the latest call, the order argsort gave and the result
  args,              \* run_loop: args.fire_confirm and args.burst_frames
  j_owed,            \* history: meta.ts of the Jobs job_q took whose successful Result is not drained yet, in order
  smoke_pause_consecutive, \* webgcs_loiter: _smoke_pause_consecutive
  last_smoke_pause_ts,     \* webgcs_loiter: _last_smoke_pause_ts
  alert_window,            \* webgcs_loiter: _alert_window (type, max_conf, start_ts; 0: None)
  last_smoke_flag,         \* webgcs_loiter: _last_smoke_flag
  last_fire_flag,          \* webgcs_loiter: _last_fire_flag
  current_mission_id,      \* MissionPlanner: current_mission_id is set (not None)
  mission_started,         \* MissionPlanner: mission_started
  paused_by_smoke,         \* MissionPlanner: paused_by_smoke
  current_wp_index,        \* MissionPlanner: current_wp_index of the current mission
  fpc,                     \* position of follow_mission_waypoints inside one iteration
  polled,                  \* history: what the latest poll of poll_jetson_fire_status did
  g_run,                   \* history: answered polls in a row, up to now, that reported smoke fit for a pause
  t_pause,                 \* history: time of the latest smoke pause (0: none)
  w_max                    \* history: per type, the highest confidence of the events seen since the window opened

mainVars == <<pc, now, ring, smoke_boxes, smoke_max, smoke_consec, smoke_confirmed,
              smoke_alert_sent, should_check_fire, last_fire_check, fire_hold_until,
              last_fire_confirm, last_fire_snapshot, fire_hit, fire_best, has_fire>>
workerVars == <<wpc, wjob, wres, w_owed>>
alerterVars == <<telegram_alerter, tg, spc, stask, callers>>
histVars == <<attempted, accepted, lfc_start, last_attempt, t_confirm, alert_tried,
              alert_ret, run_alerts, hist>>
callVars == <<acc, passed, last_ret>>
deliveryVars == <<enq>>
drainVars == <<t_drain, d_start, drained_ok>>
resultVars == <<r_owed>>
pureVars == <<s_ring, s_seen, s_burst, roi, scored>>
statusVars == <<status>>
snapVars == <<snaps, w_last, w_best_job>>
walertVars == <<wtg, wspc, wstask, w_acc>>
lockVars == <<doc, doc_tick, tick, status_lock, upos, seen>>
stopVars == <<stop_st>>
nmsVars == <<nms>>
argVars == <<args>>
orderVars == <<j_owed>>
pollVars == <<smoke_pause_consecutive, last_smoke_pause_ts, alert_window, last_smoke_flag,
              last_fire_flag, polled, g_run, t_pause, w_max>>
missionVars == <<current_mission_id, mission_started, paused_by_smoke, current_wp_index, fpc>>
gcsVars == <<pollVars, missionVars>>
jetsonVars == <<mainVars, job_q, out_q, workerVars, alerterVars, histVars, callVars,
                deliveryVars, drainVars, resultVars, pureVars, statusVars, snapVars,
                walertVars, lockVars, stopVars, nmsVars, argVars, orderVars>>
auxVars == <<lockVars, stopVars, nmsVars, argVars, orderVars, gcsVars>>
extVars == <<statusVars, snapVars, walertVars, auxVars>>
vars == <<clock, mainVars, job_q, out_q, workerVars, alerterVars, histVars, callVars,
          deliveryVars, drainVars, resultVars, pureVars, extVars>>

\* ------------------------------------------------------- TelegramAlerter
\* An alerter object is a record of the fields of TelegramAlerter; a task is
\* the queued call of _send_photo_sync, kept as its kind and confidence.
TgQueueMax == 2
TelegramSmokeCooldown == 2
TelegramFireCooldown == 1
TelegramMinConf == 50

Kinds == {"smoke", "fire"}
\* confidences a caller passes: below and above the floor
AlertConfs == {40, 90}
\* threads that call the alerter
CallerIds == {"a", "b"}

IdleCaller == [pc |-> "idle", kind |-> "smoke", conf |-> 0, now |-> 0]

NewAlerter(en, sc, fc, mc) ==
  [enabled |-> en, smoke_cooldown |-> sc, fire_cooldown |-> fc, min_confidence |-> mc,
   last_smoke_time |-> 0, last_fire_time |-> 0, queue |-> <<>>, running |-> TRUE]

LastTime(a, kind) == IF kind = "smoke" THEN a.last_smoke_time ELSE a.last_fire_time

KindCooldown(a, kind) == IF kind = "smoke" THEN a.smoke_cooldown ELSE a.fire_cooldown

\* the two early returns before the lock: disabled, confidence below the floor
AlertGate(a, conf) == a.enabled /\ ~(conf < a.min_confidence)

\* the test made under self._lock
CooldownPass(a, kind, t) == ~(t - LastTime(a, kind) < KindCooldown(a, kind))

\* a lock under which the test is made but the timestamp is not written
StampNone(a, kind, t) == a

\* one timestamp shared by the two kinds
StampBoth(a, kind, t) == [a EXCEPT !.last_smoke_time = t, !.last_fire_time = t]

\* the assignment made under self._lock
Stamp(a, kind, t) ==
  IF kind = "smoke" THEN [a EXCEPT !.last_smoke_time = t]
                    ELSE [a EXCEPT !.last_fire_time = t]

QueueFull(a) == Len(a.queue) >= TgQueueMax

\* self._queue.put_nowait(task); queue.Full leaves the queue as it is
PutTask(a, kind, conf) ==
  IF QueueFull(a) THEN a
  ELSE [a EXCEPT !.queue = Append(@, [kind |-> kind, conf |-> conf])]

\* One whole call of send_smoke_alert / send_fire_alert by a caller that is
\* alone on the object: the returned flag and the object afterwards.
\* enc_ok: cv2.imencode succeeded.
SendAlert(a, kind, conf, t, enc_ok) ==
  IF ~AlertGate(a, conf) THEN [ret |-> FALSE, obj |-> a]
  ELSE IF ~CooldownPass(a, kind, t) THEN [ret |-> FALSE, obj |-> a]
  ELSE LET b == Stamp(a, kind, t) IN
       IF ~enc_ok THEN [ret |-> FALSE, obj |-> b]
       ELSE IF QueueFull(b) THEN [ret |-> FALSE, obj |-> b]
       ELSE [ret |-> TRUE, obj |-> PutTask(b, kind, conf)]

\* --------------------------------------------------------------- helpers
\* number of TRUE flags at the end of a sequence of flags
RECURSIVE TrailingRun(_)
TrailingRun(h) ==
  IF h = <<>> \/ ~h[Len(h)] THEN 0
  ELSE 1 + TrailingRun(SubSeq(h, 1, Len(h) - 1))

\* the latest SmokeConsecN flags
Remember(h, f) ==
  LET g == Append(h, f) IN
  IF Len(g) > SmokeConsecN THEN Tail(g) ELSE g

\* a list that keeps every frame
RingAfterUnbounded(len, ok) == IF ok THEN len + 1 ELSE len

\* len(ring) after a frame: ring.append on a deque(maxlen) when the frame
\* encoded (ok); a full deque drops its oldest entry
RingAfter(len, ok) == IF ok THEN Min(len + 1, RingMaxLen) ELSE len

\* a walk that stops one frame late
RECURSIVE BurstWalkOneMore(_, _, _, _, _)
BurstWalkOneMore(idx, taken, stride, need, okf) ==
  IF ~(idx >= 0 /\ taken <= need) THEN <<>>
  ELSE IF okf[idx] THEN <<idx>> \o BurstWalkOneMore(idx - stride, taken + 1, stride, need, okf)
  ELSE BurstWalkOneMore(idx - stride, taken, stride, need, okf)

\* a walk that counts a frame it could not use
RECURSIVE BurstWalkCounting(_, _, _, _, _)
BurstWalkCounting(idx, taken, stride, need, okf) ==
  IF ~(idx >= 0 /\ taken < need) THEN <<>>
  ELSE (IF okf[idx] THEN <<idx>> ELSE <<>>)
       \o BurstWalkCounting(idx - stride, taken + 1, stride, need, okf)

\* The burst walk of run_loop: from index idx down by stride while idx >= 0
\* and fewer than need frames are taken; okf[i] tells whether ring[i] decodes,
\* crops and encodes.  The indices whose frame entered the burst, in order.
RECURSIVE BurstWalk(_, _, _, _, _)
BurstWalk(idx, taken, stride, need, okf) ==
  IF ~(idx >= 0 /\ taken < need) THEN <<>>
  ELSE IF okf[idx] THEN <<idx>> \o BurstWalk(idx - stride, taken + 1, stride, need, okf)
  ELSE BurstWalk(idx - stride, taken, stride, need, okf)

\* the live frame in a burst (an index no ring entry has)
Live == -1

\* The burst of a Job: the ring entries the walk took, newest first, or, when
\* it took none, the live frame if that encodes (live_ok).  len: len(ring).
BuildBurst(len, stride_arg, need, okf, live_ok) ==
  LET stride == Max(1, stride_arg)
      walk == BurstWalk(len - 1, 0, stride, need, okf)
  IN IF Len(walk) = 0 THEN (IF live_ok THEN <<Live>> ELSE <<>>) ELSE walk

\* ring.append(x) on a deque(maxlen=cap)
RingAppend(r, x, cap) == IF Len(r) >= cap THEN Append(Tail(r), x) ELSE Append(r, x)

\* no burst built yet
NoBurst == [built |-> FALSE, len |-> 0, stride |-> 0, need |-> 0, good |-> {},
            live_ok |-> FALSE, items |-> <<>>]

\* ---- ROI utilities; a box is <<x1, y1, x2, y2>> in whole pixels
\* union_boxes(dets): None (here <<>>) for no box, else the smallest box
\* around all of them
UnionBoxes(dets) ==
  IF dets = <<>> THEN <<>>
  ELSE LET n == 1..Len(dets) IN
       << CHOOSE v \in {dets[i][1] : i \in n} : \A i \in n : v <= dets[i][1],
          CHOOSE v \in {dets[i][2] : i \in n} : \A i \in n : v <= dets[i][2],
          CHOOSE v \in {dets[i][3] : i \in n} : \A i \in n : v >= dets[i][3],
          CHOOSE v \in {dets[i][4] : i \in n} : \A i \in n : v >= dets[i][4] >>

\* max(0, min(hi, v))
Clamp(v, hi) == Max(0, Min(hi, v))

\* a box grown by the margin and not clamped to the frame
ExpandBoxNoClamp(box, margin, W, H) ==
  LET bw == box[3] - box[1]
      bh == box[4] - box[2]
      x1 == box[1] - bw * margin
      y1 == box[2] - bh * margin
      x2 == box[3] + bw * margin
      y2 == box[4] + bh * margin
  IN IF x2 <= x1 + 2 \/ y2 <= y1 + 2 THEN <<0, 0, W - 1, H - 1>>
     ELSE <<x1, y1, x2, y2>>

\* expand_box(box, margin, W, H)
ExpandBox(box, margin, W, H) ==
  LET bw == box[3] - box[1]
      bh == box[4] - box[2]
      x1 == Clamp(box[1] - bw * margin, W - 1)
      y1 == Clamp(box[2] - bh * margin, H - 1)
      x2 == Clamp(box[3] + bw * margin, W - 1)
      y2 == Clamp(box[4] + bh * margin, H - 1)
  IN IF x2 <= x1 + 2 \/ y2 <= y1 + 2 THEN <<0, 0, W - 1, H - 1>>
     ELSE <<x1, y1, x2, y2>>

\* roi_box of run_loop: the union of the smoke boxes, the whole frame when
\* there is none, grown by the margin
RoiBox(dets, margin, W, H) ==
  LET ub == UnionBoxes(dets) IN
  ExpandBox(IF ub = <<>> THEN <<0, 0, W - 1, H - 1>> ELSE ub, margin, W, H)

\* no burst scored yet
NoScore == [built |-> FALSE, outs |-> <<>>, hits |-> 0, best |-> 0, frame |-> 0]

\* no ROI computed yet
NoRoi == [built |-> FALSE, dets |-> <<>>, margin |-> 0, W |-> 1, H |-> 1,
          ub |-> <<>>, box |-> <<>>]

\* a counter that a frame without smoke does not put back to 0
NextConsecNoReset(consec, smoke) == IF smoke THEN consec + 1 ELSE consec

\* smoke_consec after a frame: one more on a frame with smoke, 0 otherwise
NextConsec(consec, smoke) == IF smoke THEN consec + 1 ELSE 0

\* smoke_confirmed = smoke_consec >= args.smoke_consec
Confirmed(consec) == consec >= SmokeConsecN

\* an alert that is due on every confirmed frame, sent or not
AlertDueAgain(conf, sent, alerter) == conf /\ alerter

\* the smoke alert is due: confirmed, not yet sent in this run, alerter present
AlertDue(conf, sent, alerter) == conf /\ ~sent /\ alerter

\* a flag set by the attempt, whatever send_smoke_alert returned
SentAfterAlways(sent, ret) == TRUE

\* smoke_alert_sent after send_smoke_alert returned ret
SentAfter(sent, ret) == IF ret THEN TRUE ELSE sent

\* last_fire_check moved only when job_q took the Job
AfterAttemptAccepted(lfc, t, put_ok) == IF put_ok THEN t ELSE lfc

\* last_fire_check after the burst branch ran at time t (put_ok: job_q took the Job)
AfterAttempt(lfc, t, put_ok) == t

\* a drain that leaves last_fire_check alone
AfterDrainKeep(lfc, t, ok) == lfc

\* last_fire_check after a Result was drained at time t (ok: res.get("ok"))
AfterDrain(lfc, t, ok) == IF ok THEN t ELSE lfc

\* a drained Result confirms fire: it reports success and enough hit frames
IsConfirming(res) == res.ok /\ res.fire_hits >= args.fire_confirm

\* a hold one second too long
HoldUntilLate(t) == t + FireHold + 1

\* fire_hold_until set by a confirming Result drained at time t
HoldUntil(t) == t + FireHold

\* a flag that stays set once a hold was started
HasFireLatch(t, hold) == hold > 0

\* has_fire = (now < fire_hold_until)
HasFire(t, hold) == t < hold

\* a cooldown test that needs strictly more than the cooldown
ShouldCheckStrict(conf, t, lfc) == conf /\ t - lfc > CheckCooldown

\* should_check_fire = smoke_confirmed and (now - last_fire_check >= cooldown)
ShouldCheck(conf, t, lfc) == conf /\ t - lfc >= CheckCooldown

\* a burst branch that ignores the hold
TriggerGuardNoHold(should, fire) == should

\* the guard of the burst branch
TriggerGuard(should, fire) == should /\ ~fire

\* a put that replaces the pending Job when the queue is full
PutReplace(q, job) == IF Len(q) < JobQMax THEN Append(q, job) ELSE <<job>>

\* a put into a queue without a capacity
PutAlways(q, job) == Append(q, job)

\* job_q.put_nowait(job): the queue afterwards (queue.Full leaves it as it is)
PutNowait(q, job) == IF Len(q) < JobQMax THEN Append(q, job) ELSE q

\* a get that leaves the Result in the queue
GetNowaitPeek(q) == q

\* out_q after out_q.get_nowait() returned its oldest Result
GetNowait(q) == Tail(q)

\* fire_worker_main holds no Job / has built no Result; _send_worker holds no task
NoJob == [rois_jpeg |-> 0, meta |-> [ts |-> 0]]

NoResult == [ok |-> FALSE, fire_hits |-> 0, best_score |-> 0, saved |-> 0,
             meta |-> [ts |-> 0]]

NoTask == [kind |-> "none", conf |-> 0]

\* the Result put by a worker whose engine failed to load
FailedResult == [ok |-> FALSE, error |-> "load"]

\* ---- the fire worker's alerter, snapshot files and the status dict
\* TelegramAlerter(token, chat, smoke_cooldown=30, fire_cooldown=10) of
\* fire_worker_main, in seconds, and the default min_confidence=0.3 in percent
WorkerSmokeCooldown == 30
WorkerFireCooldown == 10
DefaultMinConf == 30

\* the files snap_0.jpg .. snap_<snap_count - 1>.jpg, by number
Slots == 0..(SnapCount - 1)

\* the placeholder image main() writes into every slot
Placeholder == 0

\* the worker has not processed the Job it holds
NoLast == [done |-> FALSE, has_best |-> FALSE, drawn |-> FALSE, listed |-> {},
           wrote |-> {}, called |-> FALSE, ret |-> FALSE]

\* the status dict at import time (0: None), without smoke_max_conf,
\* smoke_boxes, timestamp and the two Telegram times, which nothing here reads
NewStatus == [has_smoke |-> FALSE, has_fire |-> FALSE, fire_max_conf |-> 0,
              fire_boxes |-> 0, smoke_consec |-> 0, last_fire_check |-> 0,
              last_fire_confirm |-> 0, last_fire_snapshot |-> 0]

\* a status whose last_fire_check follows every submission attempt
StatusAfterPutAlways(st, t, put_ok) == [st EXCEPT !.last_fire_check = t]

\* status["last_fire_check"] is written right after job_q.put_nowait, inside
\* the try: only when the queue took the Job
StatusAfterPut(st, t, put_ok) == IF put_ok THEN [st EXCEPT !.last_fire_check = t] ELSE st

\* ---- webgcs_loiter.py: the poller of the Jetson status and the mission
\* ALERT_WINDOW_SEC, SMOKE_PAUSE_MIN_CONF (in percent),
\* SMOKE_PAUSE_CONSECUTIVE_POLLS and SMOKE_PAUSE_COOLDOWN_SEC
AlertWindowSec == 3
SmokePauseMinConf == 60
SmokePauseConsecutivePolls == 2
SmokePauseCooldownSec == 20

\* _alert_window with no window open
NoWindow == [type |-> "none", max_conf |-> 0, start_ts |-> 0]

\* no poll made yet, or no answer to the latest one.  zero: the poll reported
\* smoke or fire with confidence 0; since: the time from the previous smoke
\* pause to the one of this poll; type, conf: the alert pushed; top: the highest
\* confidence of the events seen in the pushed window
NotPolled == [answered |-> FALSE, zero |-> FALSE, paused |-> FALSE, pushed |-> FALSE,
              since |-> 0, type |-> "none", conf |-> 0, top |-> 0]

\* no event seen in the window
NoEvents == [SMOKE |-> 0, FIRE |-> 0]

\* event_type and conf of a poll: fire comes before smoke
EventType(hs, hf) == IF hf THEN "FIRE" ELSE IF hs THEN "SMOKE" ELSE "none"
EventConf(hs, hf, sc, fc) == IF hf THEN fc ELSE IF hs THEN sc ELSE 0

\* a counter that a poll unfit for a pause leaves as it is
PauseCountKeep(n, fit) == IF fit THEN n + 1 ELSE n

\* _smoke_pause_consecutive after a poll
PauseCount(n, fit) == IF fit THEN n + 1 ELSE 0

\* can_trigger
CanTrigger(started, paused, n, t, last) ==
  /\ started
  /\ ~paused
  /\ n >= SmokePauseConsecutivePolls
  /\ t - last >= SmokePauseCooldownSec

\* _alert_window after "ALERT WINDOW AGGREGATION" of a poll at time t
Aggregate(w, ev, conf, hs, hf, t) ==
  IF ev # "none" /\ conf > 0
  THEN IF w.start_ts = 0 THEN [type |-> ev, max_conf |-> conf, start_ts |-> t]
       ELSE IF ev = w.type
            THEN (IF conf > w.max_conf THEN [w EXCEPT !.max_conf = conf] ELSE w)
       ELSE IF ev = "FIRE" /\ w.type # "FIRE"
            THEN [w EXCEPT !.type = "FIRE", !.max_conf = conf]
       ELSE w
  ELSE IF w.start_ts # 0 /\ ~hf /\ ~hs THEN NoWindow ELSE w

\* _last_fire_flag / _last_smoke_flag after "UPDATE FLAGS"
FireFlag(flag, hf, fc) == IF hf /\ fc > 0 THEN TRUE ELSE IF ~hf THEN FALSE ELSE flag
SmokeFlag(flag, hs, hf, sc) ==
  IF hs /\ ~hf /\ sc > 0 THEN TRUE ELSE IF ~hs THEN FALSE ELSE flag

\* ---- nms_xyxy, on boxes <<x1, y1, x2, y2>> with x1 <= x2 and y1 <= y2 and
\* a threshold in percent
\* areas = (x2 - x1 + 1) * (y2 - y1 + 1)
Area(b) == (b[3] - b[1] + 1) * (b[4] - b[2] + 1)

\* inter = w * h of the overlap, each clipped at 0
Inter(a, b) ==
  LET w == Max(0, Min(a[3], b[3]) - Max(a[1], b[1]) + 1)
      h == Max(0, Min(a[4], b[4]) - Max(a[2], b[2]) + 1)
  IN w * h

\* a test that also drops a box whose IoU equals the threshold
IouBelow(a, b, thr) ==
  100 * Inter(a, b) < thr * (Area(a) + Area(b) - Inter(a, b))

\* iou <= iou_thres, for iou = inter / (areas[i] + areas[j] - inter)
IouWithin(a, b, thr) ==
  100 * Inter(a, b) <= thr * (Area(a) + Area(b) - Inter(a, b))

\* all orders of the indices 1..n
PermsOf(n) == {p \in [1..n -> 1..n] : \A i, j \in 1..n : p[i] = p[j] => i = j}

\* scores.argsort()[::-1]: the indices by descending score; the default sort
\* of argsort is not stable, so equal scores come in any order
ArgsortDesc(scores) ==
  {p \in PermsOf(Len(scores)) :
     \A i, j \in 1..Len(scores) : i < j => scores[p[i]] >= scores[p[j]]}

\* the while loop of nms_xyxy on what is left of order: the first index is
\* kept, the others stay when their IoU with it is within the threshold
RECURSIVE NmsLoop(_, _, _)
NmsLoop(boxes, order, thr) ==
  IF order = <<>> THEN <<>>
  ELSE LET i == order[1]
           Stays(j) == IouWithin(boxes[i], boxes[j], thr)
       IN <<i>> \o NmsLoop(boxes, SelectSeq(Tail(order), Stays), thr)

\* nms_xyxy has not been called
NoNms == [built |-> FALSE, boxes |-> <<>>, scores |-> <<>>, thr |-> 0,
          order |-> <<>>, keep |-> <<>>]

\* the None that stop() puts into the queue of the alerter
Sentinel == [kind |-> "stop", conf |-> 0]

\* stop() has not been called
NotStopped == [pc |-> "idle", dropped |-> FALSE]

\* the keys "Update status" assigns on every iteration, in the order of the
\* assignments
DocKeys == {"has_smoke", "has_fire", "smoke_max_conf", "fire_max_conf",
            "smoke_boxes", "fire_boxes", "smoke_consec", "timestamp"}
WriteOrder == <<"has_smoke", "has_fire", "smoke_max_conf", "fire_max_conf",
                "smoke_boxes", "fire_boxes", "smoke_consec", "timestamp">>

\* those keys of the status dict at import time (timestamp 0: None)
NewDoc == [has_smoke |-> FALSE, has_fire |-> FALSE, smoke_max_conf |-> 0,
           fire_max_conf |-> 0, smoke_boxes |-> 0, fire_boxes |-> 0,
           smoke_consec |-> 0, timestamp |-> 0]

\* no request of /api/status is being served
NotSeen == [busy |-> FALSE, doc |-> NewDoc, at |-> [k \in DocKeys |-> 0]]

\* ------------------------------------------------------------------ Init
\* the state after construction, started with --fire-confirm and
\* --burst-frames as in a
InitArgs(present, en, a) ==
  /\ clock = StartTime
  /\ pc = "frame"
  /\ now = 0
  /\ ring = 0
  /\ smoke_boxes = 0
  /\ smoke_max = 0
  /\ smoke_consec = 0
  /\ smoke_confirmed = FALSE
  /\ smoke_alert_sent = FALSE
  /\ should_check_fire = FALSE
  /\ last_fire_check = 0
  /\ fire_hold_until = 0
  /\ last_fire_confirm = 0
  /\ last_fire_snapshot = 0
  /\ fire_hit = 0
  /\ fire_best = 0
  /\ has_fire = FALSE
  /\ job_q = <<>>
  /\ out_q = <<>>
  /\ wpc = "load"
  /\ wjob = NoJob
  /\ wres = NoResult
  /\ w_owed = 0
  /\ telegram_alerter = present
  /\ tg = NewAlerter(en, TelegramSmokeCooldown, TelegramFireCooldown, TelegramMinConf)
  /\ spc = "get"
  /\ stask = NoTask
  /\ callers = [c \in CallerIds |-> IdleCaller]
  /\ attempted = FALSE
  /\ accepted = FALSE
  /\ lfc_start = 0
  /\ last_attempt = 0
  /\ t_confirm = 0
  /\ alert_tried = FALSE
  /\ alert_ret = FALSE
  /\ run_alerts = 0
  /\ hist = <<>>
  /\ acc = [k \in Kinds |-> 0]
  /\ passed = [k \in Kinds |-> 0]
  /\ last_ret = FALSE
  /\ enq = <<>>
  /\ t_drain = 0
  /\ d_start = 0
  /\ drained_ok = FALSE
  /\ r_owed = <<>>
  /\ s_ring = <<>>
  /\ s_seen = <<>>
  /\ s_burst = NoBurst
  /\ roi = NoRoi
  /\ scored = NoScore
  /\ status = NewStatus
  /\ snaps = [i \in Slots |-> Placeholder]
  /\ wtg = NewAlerter(en, WorkerSmokeCooldown, WorkerFireCooldown, DefaultMinConf)
  /\ wspc = "get"
  /\ wstask = NoTask
  /\ w_last = NoLast
  /\ w_best_job = 0
  /\ w_acc = 0
  /\ doc = NewDoc
  /\ doc_tick = [k \in DocKeys |-> 0]
  /\ tick = 0
  /\ status_lock = "free"
  /\ upos = 1
  /\ seen = NotSeen
  /\ stop_st = NotStopped
  /\ nms = NoNms
  /\ args = a
  /\ j_owed = <<>>
  /\ smoke_pause_consecutive = 0
  /\ last_smoke_pause_ts = 0
  /\ alert_window = NoWindow
  /\ last_smoke_flag = FALSE
  /\ last_fire_flag = FALSE
  /\ current_mission_id = FALSE
  /\ mission_started = FALSE
  /\ paused_by_smoke = FALSE
  /\ current_wp_index = 0
  /\ fpc = "check"
  /\ polled = NotPolled
  /\ g_run = 0
  /\ t_pause = 0
  /\ w_max = NoEvents

\* --fire-confirm and --burst-frames as configured above
DefaultArgs == [fire_confirm |-> FireConfirm, burst_frames |-> BurstFrames]

InitWith(present, en) == InitArgs(present, en, DefaultArgs)

\* started without --telegram-token / --telegram-chat: telegram_alerter = None
Init == InitWith(FALSE, FALSE)

\* started with a token and a chat id, valid (enabled) or not
InitAlert == \E en \in BOOLEAN : InitWith(TRUE, en)

\* ------------------------------------------------------------- the clock
Advance ==
  /\ pc = "frame"
  /\ clock < MaxTime
  /\ clock' = clock + 1
  /\ UNCHANGED <<mainVars, job_q, out_q, workerVars, alerterVars, histVars, callVars, deliveryVars, drainVars,
                 resultVars, pureVars, extVars>>

\* -------------------------------------------------------------- run_loop
\* a failed read that puts the consecutive counter back to 0
CaptureFailReset ==
  /\ pc = "frame"
  /\ pc' = "retry"
  /\ smoke_consec' = 0
  /\ UNCHANGED <<clock, now, ring, smoke_boxes, smoke_max,
                 smoke_confirmed, smoke_alert_sent, should_check_fire,
                 last_fire_check, fire_hold_until, last_fire_confirm,
                 last_fire_snapshot, fire_hit, fire_best, has_fire, job_q, out_q,
                 workerVars, alerterVars, histVars, callVars, deliveryVars, drainVars,
                 resultVars, pureVars, extVars>>

\* cap.read() gave no frame: nothing else of the iteration runs
CaptureFail ==
  /\ pc = "frame"
  /\ pc' = "retry"
  /\ UNCHANGED <<clock, now, ring, smoke_boxes, smoke_max, smoke_consec,
                 smoke_confirmed, smoke_alert_sent, should_check_fire,
                 last_fire_check, fire_hold_until, last_fire_confirm,
                 last_fire_snapshot, fire_hit, fire_best, has_fire, job_q, out_q,
                 workerVars, alerterVars, histVars, callVars, deliveryVars, drainVars,
                 resultVars, pureVars, extVars>>

\* time.sleep(0.02); continue: back to cap.read()
Retry ==
  /\ pc = "retry"
  /\ pc' = "frame"
  /\ UNCHANGED <<clock, now, ring, smoke_boxes, smoke_max, smoke_consec,
                 smoke_confirmed, smoke_alert_sent, should_check_fire,
                 last_fire_check, fire_hold_until, last_fire_confirm,
                 last_fire_snapshot, fire_hit, fire_best, has_fire, job_q, out_q,
                 workerVars, alerterVars, histVars, callVars, deliveryVars, drainVars,
                 resultVars, pureVars, extVars>>

\* One frame from cap.read() up to should_check_fire: ring append, smoke
\* inference and filters (nb boxes survive, best score sc), the consecutive
\* counter, the Telegram smoke alert.
\* ring_ok: the frame encoded for the ring; jpg_ok: the alert image encoded.
ProcessFrame(ring_ok, nb, sc, jpg_ok) ==
  /\ pc = "frame"
  /\ nb > 0 => smoke_consec < MaxConsec
  /\ LET consec == NextConsec(smoke_consec, nb > 0)
         sent0 == IF nb > 0 THEN smoke_alert_sent ELSE FALSE
         conf == Confirmed(consec)
         try == AlertDue(conf, sent0, telegram_alerter)
         r == SendAlert(tg, "smoke", sc, clock, jpg_ok)
     IN
     /\ ring' = RingAfter(ring, ring_ok)
     /\ smoke_boxes' = nb
     /\ smoke_max' = sc
     /\ smoke_consec' = consec
     /\ smoke_confirmed' = conf
     /\ now' = clock
     /\ tg' = IF try THEN r.obj ELSE tg
     /\ smoke_alert_sent' = IF try THEN SentAfter(sent0, r.ret) ELSE sent0
     /\ should_check_fire' = ShouldCheck(conf, clock, last_fire_check)
     /\ fire_hit' = 0
     /\ fire_best' = 0
     /\ alert_tried' = try
     /\ alert_ret' = (try /\ r.ret)
     /\ run_alerts' = IF nb = 0 THEN 0
                      ELSE IF try /\ r.ret THEN Min(run_alerts + 1, 2) ELSE run_alerts
     /\ hist' = Remember(hist, nb > 0)
     /\ enq' = IF try /\ r.ret THEN Append(enq, [kind |-> "smoke", conf |-> sc]) ELSE enq
  /\ lfc_start' = last_fire_check
  /\ d_start' = t_drain
  /\ drained_ok' = FALSE
  /\ attempted' = FALSE
  /\ accepted' = FALSE
  /\ pc' = "drain"
  /\ UNCHANGED <<clock, last_fire_check, fire_hold_until, last_fire_confirm,
                 last_fire_snapshot, has_fire, job_q, out_q, workerVars,
                 telegram_alerter, spc, stask, callers, last_attempt, t_confirm, callVars,
                 t_drain, resultVars, pureVars, extVars>>

\* out_q.get_nowait() returned a Result
DrainOne ==
  /\ pc = "drain"
  /\ out_q # <<>>
  /\ LET res == Head(out_q)
         confirming == IsConfirming(res)
     IN
     /\ out_q' = GetNowait(out_q)
     /\ fire_hit' = IF res.ok THEN res.fire_hits ELSE fire_hit
     /\ fire_best' = IF res.ok THEN res.best_score ELSE fire_best
     /\ last_fire_check' = AfterDrain(last_fire_check, now, res.ok)
     /\ fire_hold_until' = IF confirming THEN HoldUntil(now) ELSE fire_hold_until
     /\ last_fire_confirm' = IF confirming THEN now ELSE last_fire_confirm
     /\ last_fire_snapshot' = IF confirming /\ res.saved > 0 THEN now
                              ELSE last_fire_snapshot
     /\ t_confirm' = IF res.ok /\ res.fire_hits >= args.fire_confirm THEN now ELSE t_confirm
     /\ t_drain' = IF res.ok THEN now ELSE t_drain
     /\ drained_ok' = (drained_ok \/ res.ok)
     /\ r_owed' = Tail(r_owed)
     /\ j_owed' = IF res.ok /\ j_owed # <<>> THEN Tail(j_owed) ELSE j_owed
  /\ UNCHANGED <<clock, pc, now, ring, smoke_boxes, smoke_max, smoke_consec,
                 smoke_confirmed, smoke_alert_sent, should_check_fire, has_fire,
                 job_q, workerVars, alerterVars, attempted, accepted, lfc_start,
                 last_attempt, alert_tried, alert_ret, run_alerts, hist, callVars,
                 deliveryVars, d_start, pureVars, statusVars, snapVars, walertVars,
                 lockVars, stopVars, nmsVars, argVars,
                 gcsVars>>

\* out_q.get_nowait() raised queue.Empty: the drain ends, has_fire is computed
DrainDone ==
  /\ pc = "drain"
  /\ out_q = <<>>
  /\ has_fire' = HasFire(now, fire_hold_until)
  /\ pc' = "trigger"
  /\ UNCHANGED <<clock, now, ring, smoke_boxes, smoke_max, smoke_consec,
                 smoke_confirmed, smoke_alert_sent, should_check_fire,
                 last_fire_check, fire_hold_until, last_fire_confirm,
                 last_fire_snapshot, fire_hit, fire_best, job_q, out_q,
                 workerVars, alerterVars, histVars, callVars, deliveryVars, drainVars,
                 resultVars, pureVars, extVars>>

\* The burst branch: sample the ring (okf: which entries decode, crop and
\* encode; live_ok: the live frame encodes when the ring gave nothing), build
\* the Job, put_nowait it, and set last_fire_check whatever the outcome.
TriggerFire(okf, live_ok) ==
  /\ pc = "trigger"
  /\ TriggerGuard(should_check_fire, has_fire)
  /\ LET n == Len(BuildBurst(ring, BurstStride, args.burst_frames, okf, live_ok))
         job == [rois_jpeg |-> n,
                 meta |-> [ts |-> now]]
     IN
     /\ job_q' = PutNowait(job_q, job)
     /\ accepted' = (Len(job_q) < JobQMax)
     /\ last_fire_check' = AfterAttempt(last_fire_check, now, Len(job_q) < JobQMax)
     /\ status' = StatusAfterPut(status, clock, Len(job_q) < JobQMax)
     /\ j_owed' = IF Len(job_q) < JobQMax THEN Append(j_owed, now) ELSE j_owed
  /\ attempted' = TRUE
  /\ last_attempt' = now
  /\ pc' = "publish"
  /\ UNCHANGED <<clock, now, ring, smoke_boxes, smoke_max, smoke_consec,
                 smoke_confirmed, smoke_alert_sent, should_check_fire,
                 fire_hold_until, last_fire_confirm, last_fire_snapshot, fire_hit,
                 fire_best, has_fire, out_q, workerVars, alerterVars, lfc_start,
                 t_confirm, alert_tried, alert_ret, run_alerts, hist, callVars, deliveryVars, drainVars,
                 resultVars, pureVars, snapVars, walertVars, lockVars, stopVars, nmsVars,
                 argVars,
                 gcsVars>>

\* the burst branch is not taken
NoTrigger ==
  /\ pc = "trigger"
  /\ ~TriggerGuard(should_check_fire, has_fire)
  /\ pc' = "publish"
  /\ UNCHANGED <<clock, now, ring, smoke_boxes, smoke_max, smoke_consec,
                 smoke_confirmed, smoke_alert_sent, should_check_fire,
                 last_fire_check, fire_hold_until, last_fire_confirm,
                 last_fire_snapshot, fire_hit, fire_best, has_fire, job_q, out_q,
                 workerVars, alerterVars, histVars, callVars, deliveryVars, drainVars,
                 resultVars, pureVars, extVars>>

\* the status dict after "Update status"
StatusUpdate(st) ==
  [st EXCEPT !.has_smoke = smoke_confirmed,
             !.has_fire = has_fire,
             !.fire_max_conf = fire_best,
             !.fire_boxes = fire_hit,
             !.smoke_consec = smoke_consec,
             !.last_fire_confirm = IF last_fire_confirm > 0 THEN last_fire_confirm ELSE @,
             !.last_fire_snapshot = IF last_fire_snapshot > 0 THEN last_fire_snapshot ELSE @]

\* drawing, status update, MJPEG push, sleep: the iteration ends
Publish ==
  /\ pc = "publish"
  /\ pc' = "frame"
  /\ status' = StatusUpdate(status)
  /\ UNCHANGED <<clock, now, ring, smoke_boxes, smoke_max, smoke_consec,
                 smoke_confirmed, smoke_alert_sent, should_check_fire,
                 last_fire_check, fire_hold_until, last_fire_confirm,
                 last_fire_snapshot, fire_hit, fire_best, has_fire, job_q, out_q,
                 workerVars, alerterVars, histVars, callVars, deliveryVars, drainVars,
                 resultVars, pureVars, snapVars, walertVars, auxVars>>

\* ---- "Update status" one assignment at a time, against /api/status
\* what "Update status" assigns to key k
TickValue(k) ==
  CASE k = "has_smoke" -> smoke_confirmed
    [] k = "has_fire" -> has_fire
    [] k = "smoke_max_conf" -> smoke_max
    [] k = "fire_max_conf" -> fire_best
    [] k = "smoke_boxes" -> smoke_boxes
    [] k = "fire_boxes" -> fire_hit
    [] k = "smoke_consec" -> smoke_consec
    [] k = "timestamp" -> clock

\* `with status_lock:` of "Update status" is entered
StatusLock ==
  /\ pc = "publish"
  /\ status_lock = "free"
  /\ status_lock' = "main"
  /\ pc' = "update"
  /\ tick' = (tick % 3) + 1
  /\ upos' = 1
  /\ UNCHANGED <<clock, now, ring, smoke_boxes, smoke_max, smoke_consec,
                 smoke_confirmed, smoke_alert_sent, should_check_fire,
                 last_fire_check, fire_hold_until, last_fire_confirm,
                 last_fire_snapshot, fire_hit, fire_best, has_fire, job_q, out_q,
                 workerVars, alerterVars, histVars, callVars, deliveryVars, drainVars,
                 resultVars, pureVars, statusVars, snapVars, walertVars, doc, doc_tick, seen,
                 stopVars, nmsVars, argVars, orderVars, gcsVars>>

\* the next of the assignments status[key] = ... under the lock
StatusWrite ==
  /\ pc = "update"
  /\ upos <= Len(WriteOrder)
  /\ doc' = [doc EXCEPT ![WriteOrder[upos]] = TickValue(WriteOrder[upos])]
  /\ doc_tick' = [doc_tick EXCEPT ![WriteOrder[upos]] = tick]
  /\ upos' = upos + 1
  /\ UNCHANGED <<clock, mainVars, job_q, out_q, workerVars, alerterVars, histVars,
                 callVars, deliveryVars, drainVars, resultVars, pureVars, statusVars,
                 snapVars, walertVars, tick, status_lock, seen,
                 stopVars, nmsVars, argVars, orderVars, gcsVars>>

\* the two conditional assignments, the end of the with block, and the rest
\* of the iteration (MJPEG push, sleep)
StatusUnlock ==
  /\ pc = "update"
  /\ upos > Len(WriteOrder)
  /\ status' = StatusUpdate(status)
  /\ status_lock' = "free"
  /\ upos' = 1
  /\ pc' = "frame"
  /\ UNCHANGED <<clock, now, ring, smoke_boxes, smoke_max, smoke_consec,
                 smoke_confirmed, smoke_alert_sent, should_check_fire,
                 last_fire_check, fire_hold_until, last_fire_confirm,
                 last_fire_snapshot, fire_hit, fire_best, has_fire, job_q, out_q,
                 workerVars, alerterVars, histVars, callVars, deliveryVars, drainVars,
                 resultVars, pureVars, snapVars, walertVars, doc, doc_tick, tick, seen,
                 stopVars, nmsVars, argVars, orderVars, gcsVars>>

\* a handler that serialises the dict without holding the lock
ApiStatusNoLock ==
  /\ ~seen.busy
  /\ seen' = [busy |-> TRUE, doc |-> doc, at |-> doc_tick]
  /\ UNCHANGED <<clock, mainVars, job_q, out_q, workerVars, alerterVars, histVars,
                 callVars, deliveryVars, drainVars, resultVars, pureVars, statusVars,
                 snapVars, walertVars, doc, doc_tick, tick, status_lock, upos,
                 stopVars, nmsVars, argVars, orderVars, gcsVars>>

\* api_status / api_fire_status: `with status_lock:` is entered and
\* jsonify(status) serialises the dict
ApiStatus ==
  /\ ~seen.busy
  /\ status_lock = "free"
  /\ status_lock' = "api"
  /\ seen' = [busy |-> TRUE, doc |-> doc, at |-> doc_tick]
  /\ UNCHANGED <<clock, mainVars, job_q, out_q, workerVars, alerterVars, histVars,
                 callVars, deliveryVars, drainVars, resultVars, pureVars, statusVars,
                 snapVars, walertVars, doc, doc_tick, tick, upos,
                 stopVars, nmsVars, argVars, orderVars, gcsVars>>

\* the handler returns the response and leaves the with block
ApiReturn ==
  /\ seen.busy
  /\ status_lock' = IF status_lock = "api" THEN "free" ELSE status_lock
  /\ seen' = NotSeen
  /\ UNCHANGED <<clock, mainVars, job_q, out_q, workerVars, alerterVars, histVars,
                 callVars, deliveryVars, drainVars, resultVars, pureVars, statusVars,
                 snapVars, walertVars, doc, doc_tick, tick, upos,
                 stopVars, nmsVars, argVars, orderVars, gcsVars>>


\* ------------------------------------------------------ fire_worker_main
\* What one burst frame gives: -1 it does not decode or the inference raises,
\* 0 no detection passes the filters, otherwise the top score of its detections.
FrameOutcomes == {-1, 0} \cup FireScores

\* a count that takes every frame with a detection twice
RECURSIVE FireHitsTwice(_)
FireHitsTwice(outs) ==
  IF outs = <<>> THEN 0
  ELSE (IF Head(outs) > 0 THEN 2 ELSE 0) + FireHitsTwice(Tail(outs))

\* fire_hits after the frames of outs
RECURSIVE FireHits(_)
FireHits(outs) ==
  IF outs = <<>> THEN 0
  ELSE (IF Head(outs) > 0 THEN 1 ELSE 0) + FireHits(Tail(outs))

\* best["score"] after the frames of outs, starting from score b: a frame
\* replaces the best only with a strictly higher top score
RECURSIVE BestScore(_, _)
BestScore(outs, b) ==
  IF outs = <<>> THEN b
  ELSE BestScore(Tail(outs), IF Head(outs) > b THEN Head(outs) ELSE b)

\* TRTInfer(fire_engine, fire_input) succeeded
WorkerLoadOk ==
  /\ wpc = "load"
  /\ wpc' = "get"
  /\ UNCHANGED <<clock, mainVars, job_q, out_q, wjob, wres, w_owed, alerterVars,
                 histVars, callVars, deliveryVars, drainVars,
                 resultVars, pureVars, extVars>>

\* a worker that reports the failed load and goes on to serve Jobs
WorkerLoadFailContinue ==
  /\ wpc = "load"
  /\ Len(out_q) < OutQMax
  /\ out_q' = Append(out_q, FailedResult)
  /\ r_owed' = Append(r_owed, FailedResult)
  /\ wpc' = "get"
  /\ UNCHANGED <<clock, mainVars, job_q, wjob, wres, w_owed, alerterVars, histVars, callVars,
                 deliveryVars, drainVars, pureVars, extVars>>

\* TRTInfer raised: one failed Result is put and the process returns
WorkerLoadFail ==
  /\ wpc = "load"
  /\ Len(out_q) < OutQMax
  /\ out_q' = Append(out_q, FailedResult)
  /\ r_owed' = Append(r_owed, FailedResult)
  /\ wpc' = "exited"
  /\ UNCHANGED <<clock, mainVars, job_q, wjob, wres, w_owed, alerterVars, histVars, callVars,
                 deliveryVars, drainVars, pureVars, extVars>>

\* job = job_q.get()
WorkerGet ==
  /\ wpc = "get"
  /\ job_q # <<>>
  /\ wjob' = Head(job_q)
  /\ job_q' = Tail(job_q)
  /\ wpc' = "process"
  /\ w_owed' = w_owed + 1
  /\ UNCHANGED <<clock, mainVars, out_q, wres, alerterVars, histVars, callVars, deliveryVars, drainVars,
                 resultVars, pureVars, extVars>>

\* a best frame that a later frame with an equal score replaces
RECURSIVE BestFrameLast(_, _, _, _)
BestFrameLast(outs, k, b, f) ==
  IF k > Len(outs) THEN f
  ELSE IF outs[k] > 0 /\ outs[k] >= b THEN BestFrameLast(outs, k + 1, outs[k], k)
  ELSE BestFrameLast(outs, k + 1, b, f)

\* best["img"] after the frames k.. of outs, as the number of the burst frame
\* it is (0: None), starting from best score b and frame f
RECURSIVE BestFrame(_, _, _, _)
BestFrame(outs, k, b, f) ==
  IF k > Len(outs) THEN f
  ELSE IF outs[k] > b THEN BestFrame(outs, k + 1, outs[k], k)
  ELSE BestFrame(outs, k + 1, b, f)

\* the files after the loop over range(snap_count): the slots in wrote hold
\* the new image
SnapsAfter(files, wrote, img) == [i \in Slots |-> IF i \in wrote THEN img ELSE files[i]]

\* The burst of the Job is processed (outs: what each frame gives) and, when
\* a best detection exists, the snapshot is rendered (render_ok: drawing did
\* not raise), written into every slot (listed: the slots whose cv2.imwrite
\* did not raise, which `saved` lists; wrote: those whose file was written)
\* and send_fire_alert called on the alerter of the worker if it is there
\* and enabled (enc_ok: the alert image encoded).
WorkerProcess(outs, render_ok, listed, wrote, enc_ok) ==
  /\ wpc = "process"
  /\ Len(outs) = wjob.rois_jpeg
  /\ wrote \subseteq listed
  /\ listed \subseteq Slots
  /\ LET hits == FireHits(outs)
         best == BestScore(outs, 0)
         frame == BestFrame(outs, 1, 0, 0)
         has_best == frame # 0
         call == has_best /\ telegram_alerter /\ wtg.enabled
         r == SendAlert(wtg, "fire", best, clock, enc_ok)
         did == [NoLast EXCEPT !.done = TRUE, !.has_best = has_best]
     IN
     /\ w_best_job' = IF has_best THEN wjob.meta.ts ELSE w_best_job
     /\ IF has_best /\ ~render_ok
        THEN /\ wpc' = "crashed"
             /\ wres' = wres
             /\ w_last' = did
             /\ UNCHANGED <<snaps, wtg, w_acc>>
        ELSE /\ wpc' = "put"
             /\ wres' = [ok |-> TRUE, fire_hits |-> hits, best_score |-> best,
                         saved |-> IF has_best THEN Cardinality(listed) ELSE 0,
                         meta |-> wjob.meta]
             /\ snaps' = IF has_best THEN SnapsAfter(snaps, wrote, wjob.meta.ts) ELSE snaps
             /\ wtg' = IF call THEN r.obj ELSE wtg
             /\ w_acc' = IF call /\ r.ret THEN clock ELSE w_acc
             /\ w_last' = [did EXCEPT !.drawn = has_best,
                                      !.listed = IF has_best THEN listed ELSE {},
                                      !.wrote = IF has_best THEN wrote ELSE {},
                                      !.called = call,
                                      !.ret = call /\ r.ret]
  /\ UNCHANGED <<clock, mainVars, job_q, out_q, wjob, w_owed, alerterVars, histVars, callVars, deliveryVars, drainVars,
                 resultVars, pureVars, statusVars, wspc, wstask, auxVars>>

\* the inference of a burst frame never returns: the worker is stuck with the Job
WorkerStall ==
  /\ wpc = "process"
  /\ wpc' = "stuck"
  /\ UNCHANGED <<clock, mainVars, job_q, out_q, wjob, wres, w_owed, alerterVars, histVars,
                 callVars, deliveryVars, drainVars, resultVars, pureVars, extVars>>

\* a put that places the Result ahead of those waiting in out_q
WorkerPutFront ==
  /\ wpc = "put"
  /\ Len(out_q) < OutQMax
  /\ out_q' = <<wres>> \o out_q
  /\ r_owed' = <<wres>> \o r_owed
  /\ wpc' = "get"
  /\ wres' = NoResult
  /\ wjob' = NoJob
  /\ w_owed' = w_owed - 1
  /\ w_last' = NoLast
  /\ UNCHANGED <<clock, mainVars, job_q, alerterVars, histVars, callVars,
                 deliveryVars, drainVars, pureVars, statusVars, snaps, w_best_job,
                 walertVars, auxVars>>

\* out_q.put(result): it waits while out_q is full
WorkerPut ==
  /\ wpc = "put"
  /\ Len(out_q) < OutQMax
  /\ out_q' = Append(out_q, wres)
  /\ r_owed' = Append(r_owed, wres)
  /\ wpc' = "get"
  /\ wres' = NoResult
  /\ wjob' = NoJob
  /\ w_owed' = w_owed - 1
  /\ w_last' = NoLast
  /\ UNCHANGED <<clock, mainVars, job_q, alerterVars, histVars, callVars,
                 deliveryVars, drainVars, pureVars, statusVars, snaps, w_best_job,
                 walertVars, auxVars>>

\* ------------------------------------------- TelegramAlerter._send_worker
\* task = self._queue.get(timeout=1.0) returned a task
SenderGet ==
  /\ spc = "get"
  /\ tg.queue # <<>>
  /\ stask' = Head(tg.queue)
  /\ tg' = [tg EXCEPT !.queue = Tail(@)]
  /\ spc' = "send"
  /\ UNCHANGED <<clock, mainVars, job_q, out_q, workerVars, telegram_alerter, callers,
                 histVars, callVars, deliveryVars, drainVars,
                 resultVars, pureVars, extVars>>

\* a sender that puts a task whose delivery failed back into the queue
AfterDeliveryRetry(q, task, ok) == IF ok THEN q ELSE Append(q, task)

\* the queue after func(*args) on a task returned (ok) or failed: the
\* failure is printed and nothing is put back
AfterDelivery(q, task, ok) == q

\* func(*args): the delivery succeeded (ok) or failed; either way the task is gone
SenderDeliver(ok) ==
  /\ spc = "send"
  /\ spc' = "get"
  /\ stask' = NoTask
  /\ tg' = [tg EXCEPT !.queue = AfterDelivery(@, stask, ok)]
  /\ enq' = Tail(enq)
  /\ UNCHANGED <<clock, mainVars, job_q, out_q, workerVars, telegram_alerter,
                 callers, histVars, callVars, drainVars, resultVars, pureVars, extVars>>

\* ---- TelegramAlerter.stop() and the loop of _send_worker around it
\* stop(): self._running = False
StopBegin ==
  /\ stop_st.pc = "idle"
  /\ tg' = [tg EXCEPT !.running = FALSE]
  /\ stop_st' = [stop_st EXCEPT !.pc = "put"]
  /\ UNCHANGED <<clock, mainVars, job_q, out_q, workerVars, telegram_alerter, spc, stask,
                 callers, histVars, callVars, deliveryVars, drainVars, resultVars,
                 pureVars, statusVars, snapVars, walertVars, lockVars,
                 nmsVars, argVars, orderVars, gcsVars>>

\* stop(): self._queue.put_nowait(None), with the bare except that swallows
\* queue.Full
StopPut ==
  /\ stop_st.pc = "put"
  /\ tg' = IF QueueFull(tg) THEN tg ELSE [tg EXCEPT !.queue = Append(@, Sentinel)]
  /\ stop_st' = [pc |-> "done", dropped |-> QueueFull(tg)]
  /\ UNCHANGED <<clock, mainVars, job_q, out_q, workerVars, telegram_alerter, spc, stask,
                 callers, histVars, callVars, deliveryVars, drainVars, resultVars,
                 pureVars, statusVars, snapVars, walertVars, lockVars,
                 nmsVars, argVars, orderVars, gcsVars>>

\* _send_worker: `while self._running:` holds, the thread enters queue.get
SenderEnter ==
  /\ spc = "get"
  /\ tg.running
  /\ spc' = "wait"
  /\ UNCHANGED <<clock, mainVars, job_q, out_q, workerVars, telegram_alerter, tg, stask,
                 callers, histVars, callVars, deliveryVars, drainVars, resultVars,
                 pureVars, extVars>>

\* a loop `while True:` that only the sentinel ends
SenderExitNever ==
  /\ spc = "get"
  /\ ~tg.running
  /\ spc' = "wait"
  /\ UNCHANGED <<clock, mainVars, job_q, out_q, workerVars, telegram_alerter, tg, stask,
                 callers, histVars, callVars, deliveryVars, drainVars, resultVars,
                 pureVars, extVars>>

\* _send_worker: `while self._running:` fails, the thread ends
SenderExit ==
  /\ spc = "get"
  /\ ~tg.running
  /\ spc' = "done"
  /\ UNCHANGED <<clock, mainVars, job_q, out_q, workerVars, telegram_alerter, tg, stask,
                 callers, histVars, callVars, deliveryVars, drainVars, resultVars,
                 pureVars, extVars>>

\* _send_worker: queue.get(timeout=1.0) returns a task, or the None on which
\* the thread breaks out of the loop
SenderTake ==
  /\ spc = "wait"
  /\ tg.queue # <<>>
  /\ tg' = [tg EXCEPT !.queue = Tail(@)]
  /\ IF Head(tg.queue) = Sentinel
     THEN /\ spc' = "done"
          /\ stask' = stask
     ELSE /\ spc' = "send"
          /\ stask' = Head(tg.queue)
  /\ UNCHANGED <<clock, mainVars, job_q, out_q, workerVars, telegram_alerter, callers,
                 histVars, callVars, deliveryVars, drainVars, resultVars, pureVars,
                 extVars>>

\* _send_worker: queue.get(timeout=1.0) raises queue.Empty, `continue`
SenderEmpty ==
  /\ spc = "wait"
  /\ tg.queue = <<>>
  /\ spc' = "get"
  /\ UNCHANGED <<clock, mainVars, job_q, out_q, workerVars, telegram_alerter, tg, stask,
                 callers, histVars, callVars, deliveryVars, drainVars, resultVars,
                 pureVars, extVars>>

\* one step of the thread that runs _send_worker
SenderStep ==
  \/ SenderEnter
  \/ SenderExit
  \/ SenderTake
  \/ SenderEmpty
  \/ \E ok \in BOOLEAN : SenderDeliver(ok)

\* the alerter of the worker process exists and its sender thread runs
WorkerAlerterLive == telegram_alerter /\ wpc \in {"get", "process", "put", "stuck"}

\* _send_worker of the alerter of the worker process: a task is taken
WorkerSenderGet ==
  /\ WorkerAlerterLive
  /\ wspc = "get"
  /\ wtg.queue # <<>>
  /\ wstask' = Head(wtg.queue)
  /\ wtg' = [wtg EXCEPT !.queue = Tail(@)]
  /\ wspc' = "send"
  /\ UNCHANGED <<clock, mainVars, job_q, out_q, workerVars, alerterVars, histVars, callVars,
                 deliveryVars, drainVars, resultVars, pureVars, statusVars, snapVars, w_acc, auxVars>>

\* _send_worker of the alerter of the worker process: the delivery returned
WorkerSenderDeliver(ok) ==
  /\ WorkerAlerterLive
  /\ wspc = "send"
  /\ wspc' = "get"
  /\ wstask' = NoTask
  /\ wtg' = [wtg EXCEPT !.queue = AfterDelivery(@, wstask, ok)]
  /\ UNCHANGED <<clock, mainVars, job_q, out_q, workerVars, alerterVars, histVars, callVars,
                 deliveryVars, drainVars, resultVars, pureVars, statusVars, snapVars, w_acc, auxVars>>

\* ------------------------------- callers of send_smoke_alert / send_fire_alert
\* A thread enters send_<kind>_alert: the two early returns, then now = time.time()
CallBegin(c, kind, conf) ==
  /\ callers[c].pc = "idle"
  /\ IF AlertGate(tg, conf)
     THEN /\ callers' = [callers EXCEPT ![c] =
                          [pc |-> "lock", kind |-> kind, conf |-> conf, now |-> clock]]
          /\ last_ret' = last_ret
     ELSE /\ callers' = callers
          /\ last_ret' = FALSE
  /\ UNCHANGED <<clock, mainVars, job_q, out_q, workerVars, telegram_alerter, tg, spc,
                 stask, histVars, acc, passed, deliveryVars, drainVars,
                 resultVars, pureVars, extVars>>

\* with self._lock: the cooldown test and, when it passes, the new timestamp
CallLock(c) ==
  /\ callers[c].pc = "lock"
  /\ LET k == callers[c].kind
         t == callers[c].now
     IN
     IF CooldownPass(tg, k, t)
     THEN /\ tg' = Stamp(tg, k, t)
          /\ callers' = [callers EXCEPT ![c].pc = "put"]
          /\ passed' = [passed EXCEPT ![k] = t]
          /\ last_ret' = last_ret
     ELSE /\ tg' = tg
          /\ callers' = [callers EXCEPT ![c] = IdleCaller]
          /\ passed' = passed
          /\ last_ret' = FALSE
  /\ UNCHANGED <<clock, mainVars, job_q, out_q, workerVars, telegram_alerter, spc, stask,
                 histVars, acc, deliveryVars, drainVars,
                 resultVars, pureVars, extVars>>

\* cv2.imencode (enc_ok: it succeeded) and self._queue.put_nowait
CallPut(c, enc_ok) ==
  /\ callers[c].pc = "put"
  /\ LET k == callers[c].kind
         ok == enc_ok /\ ~QueueFull(tg)
     IN
     /\ tg' = IF enc_ok THEN PutTask(tg, k, callers[c].conf) ELSE tg
     /\ acc' = IF ok THEN [acc EXCEPT ![k] = callers[c].now] ELSE acc
     /\ last_ret' = ok
     /\ enq' = IF ok THEN Append(enq, [kind |-> k, conf |-> callers[c].conf]) ELSE enq
  /\ callers' = [callers EXCEPT ![c] = IdleCaller]
  /\ UNCHANGED <<clock, mainVars, job_q, out_q, workerVars, telegram_alerter, spc, stask,
                 histVars, passed, drainVars, resultVars, pureVars, extVars>>

\* ---- webgcs_loiter.py: poll_jetson_fire_status and the mission threads
\* confidences, in percent, that /api/fire_status reports
GcsConfs == {0, 50, 90}

\* waypoints of the mission, none of them with an action
GcsWaypoints == 2

\* the longest run of polls fit for a pause that is followed
GcsMaxConsec == 3

\* one iteration of the loop of poll_jetson_fire_status, dt seconds after the
\* previous one: the request, the smoke pause, the alert window, the push and
\* the flags.  resp_ok: the request gave status 200 and a JSON document;
\* gps_ok: _get_current_gps() gave a position
Poll(dt, resp_ok, hs, hf, sc, fc, gps_ok) ==
  LET t == clock + dt
      fit == hs /\ ~hf /\ sc > 0 /\ sc >= SmokePauseMinConf
      n == PauseCount(smoke_pause_consecutive, fit)
      pause == /\ CanTrigger(mission_started, paused_by_smoke, n, t, last_smoke_pause_ts)
               /\ gps_ok
      ev == EventType(hs, hf)
      conf == EventConf(hs, hf, sc, fc)
      real == ev # "none" /\ conf > 0
      w == Aggregate(alert_window, ev, conf, hs, hf, t)
      due == w.start_ts # 0 /\ t - w.start_ts >= AlertWindowSec
      push == due /\ w.max_conf > 0
      seen0 == IF alert_window.start_ts = 0 THEN NoEvents ELSE w_max
      seen1 == IF real THEN [seen0 EXCEPT ![ev] = Max(@, conf)] ELSE seen0
  IN
  /\ clock' = t
  /\ fit => smoke_pause_consecutive < GcsMaxConsec
  /\ IF ~resp_ok
     THEN /\ polled' = NotPolled
          /\ UNCHANGED <<smoke_pause_consecutive, last_smoke_pause_ts, alert_window,
                         last_smoke_flag, last_fire_flag, g_run, t_pause, w_max,
                         paused_by_smoke>>
     ELSE /\ smoke_pause_consecutive' = IF pause THEN 0 ELSE n
          /\ last_smoke_pause_ts' = IF pause THEN t ELSE last_smoke_pause_ts
          /\ paused_by_smoke' = (paused_by_smoke \/ pause)
          /\ alert_window' = IF due THEN NoWindow ELSE w
          /\ last_fire_flag' = FireFlag(last_fire_flag, hf, fc)
          /\ last_smoke_flag' = SmokeFlag(last_smoke_flag, hs, hf, sc)
          /\ polled' = [answered |-> TRUE, zero |-> (ev # "none" /\ conf = 0),
                        paused |-> pause, pushed |-> push,
                        since |-> IF pause /\ t_pause # 0 THEN t - t_pause ELSE 0,
                        type |-> IF push THEN w.type ELSE "none",
                        conf |-> IF push THEN w.max_conf ELSE 0,
                        top |-> IF push THEN Max(seen1.SMOKE, seen1.FIRE) ELSE 0]
          /\ g_run' = IF fit THEN Min(g_run + 1, SmokePauseConsecutivePolls) ELSE 0
          /\ t_pause' = IF pause THEN t ELSE t_pause
          /\ w_max' = IF due \/ w.start_ts = 0 THEN NoEvents ELSE seen1
  /\ UNCHANGED <<jetsonVars, current_mission_id, mission_started, current_wp_index, fpc>>

\* MissionPlanner.set_current_mission
SetCurrentMission ==
  /\ current_mission_id' = TRUE
  /\ mission_started' = FALSE
  /\ UNCHANGED <<clock, jetsonVars, pollVars, paused_by_smoke, current_wp_index, fpc>>

\* MissionPlanner.start_mission_execution
StartMissionExecution ==
  /\ current_mission_id
  /\ mission_started' = TRUE
  /\ current_wp_index' = 0
  /\ UNCHANGED <<clock, jetsonVars, pollVars, current_mission_id, paused_by_smoke, fpc>>

\* MissionPlanner.advance_waypoint: what it does to the mission
AdvanceWaypoint ==
  IF ~current_mission_id
  THEN UNCHANGED <<current_mission_id, mission_started, current_wp_index>>
  ELSE /\ current_wp_index' = current_wp_index + 1
       /\ IF current_wp_index + 1 >= GcsWaypoints
          THEN current_mission_id' = FALSE /\ mission_started' = FALSE
          ELSE UNCHANGED <<current_mission_id, mission_started>>

\* follow_mission_waypoints: mission_active is read under _mission_lock
FollowerCheck ==
  /\ fpc = "check"
  /\ fpc' = IF current_mission_id /\ mission_started /\ ~paused_by_smoke
            THEN "act" ELSE "check"
  /\ UNCHANGED <<clock, jetsonVars, pollVars, current_mission_id, mission_started,
                 paused_by_smoke, current_wp_index>>

\* follow_mission_waypoints after the lock is released: the current waypoint,
\* the distance to it (near: below 10 m) and advance_waypoint()
FollowerAct(near) ==
  /\ fpc = "act"
  /\ fpc' = "check"
  /\ IF current_mission_id /\ current_wp_index < GcsWaypoints /\ near
     THEN AdvanceWaypoint
     ELSE UNCHANGED <<current_mission_id, mission_started, current_wp_index>>
  /\ UNCHANGED <<clock, jetsonVars, pollVars, paused_by_smoke>>

\* MissionPlanner._auto_advance_waypoint, called when a waypoint action ends
AutoAdvanceWaypoint ==
  /\ IF ~paused_by_smoke /\ current_mission_id /\ mission_started
     THEN AdvanceWaypoint
     ELSE UNCHANGED <<current_mission_id, mission_started, current_wp_index>>
  /\ UNCHANGED <<clock, jetsonVars, pollVars, paused_by_smoke, fpc>>

\* MissionPlanner.resume_mission_after_smoke; at_wp: the drone is at the
\* waypoint and its action was triggered, so _auto_advance_waypoint follows
ResumeMissionAfterSmoke(at_wp) ==
  /\ paused_by_smoke
  /\ paused_by_smoke' = FALSE
  /\ IF at_wp /\ current_mission_id /\ mission_started
     THEN AdvanceWaypoint
     ELSE UNCHANGED <<current_mission_id, mission_started, current_wp_index>>
  /\ UNCHANGED <<clock, jetsonVars, pollVars, fpc>>

\* time passes, at any point of any thread
Elapse ==
  /\ clock < MaxTime
  /\ clock' = clock + 1
  /\ UNCHANGED <<mainVars, job_q, out_q, workerVars, alerterVars, histVars, callVars, deliveryVars, drainVars,
                 resultVars, pureVars, extVars>>

\* one step of run_loop after cap.read() gave a frame
LoopStep ==
  \/ \E ring_ok, jpg_ok \in BOOLEAN : ProcessFrame(ring_ok, 0, 0, jpg_ok)
  \/ \E ring_ok, jpg_ok \in BOOLEAN, nb \in BoxCounts, sc \in SmokeScores :
       ProcessFrame(ring_ok, nb, sc, jpg_ok)
  \/ DrainOne
  \/ DrainDone
  \/ \E okf \in [0..(ring - 1) -> BOOLEAN], live_ok \in BOOLEAN :
       TriggerFire(okf, live_ok)
  \/ NoTrigger
  \/ Publish

Next ==
  \/ Advance
  \/ LoopStep
  \/ WorkerLoadOk
  \/ WorkerLoadFail
  \/ WorkerGet
  \/ \E outs \in [1..(IF wpc = "process" THEN wjob.rois_jpeg ELSE 0) -> FrameOutcomes] :
       \E render_ok, enc_ok \in BOOLEAN, listed \in SUBSET Slots :
         \E wrote \in SUBSET listed :
           WorkerProcess(outs, render_ok, listed, wrote, enc_ok)
  \/ WorkerPut

Spec == Init /\ [][Next]_vars

\* The same program with reads of the camera that fail: a failed read goes
\* back to cap.read() after a short sleep.
NextCapture ==
  \/ CaptureFail
  \/ Retry
  \/ Next

SpecCapture == Init /\ [][NextCapture]_vars

\* The program started with Telegram configured and a fire engine that does
\* not load: the loop, the worker that reports the failure and exits, and the
\* sender thread of the alerter of run_loop.  The smoke alert reads nothing
\* the fire worker writes, so its behaviours are those of the full program.
NextAlert ==
  \/ Advance
  \/ LoopStep
  \/ WorkerLoadFail
  \/ SenderGet
  \/ \E ok \in BOOLEAN : SenderDeliver(ok)

SpecAlert == InitAlert /\ [][NextAlert]_vars

\* A TelegramAlerter object on its own: threads calling send_smoke_alert and
\* send_fire_alert with any confidence at any time, and its sender thread.
NextNotifier ==
  \/ Elapse
  \/ \E c \in CallerIds, k \in Kinds, conf \in AlertConfs : CallBegin(c, k, conf)
  \/ \E c \in CallerIds : CallLock(c)
  \/ \E c \in CallerIds, enc_ok \in BOOLEAN : CallPut(c, enc_ok)
  \/ SenderGet
  \/ \E ok \in BOOLEAN : SenderDeliver(ok)

SpecNotifier == InitAlert /\ [][NextNotifier]_vars

\* The loop did not get a frame for a whole fire-check cooldown (cap.read()
\* blocked, or failed and was retried): the next frame is that much later.
Wait ==
  /\ pc = "frame"
  /\ clock + CheckCooldown <= LongMaxTime
  /\ clock' = clock + CheckCooldown
  /\ UNCHANGED <<mainVars, job_q, out_q, workerVars, alerterVars, histVars, callVars,
                 deliveryVars, drainVars, resultVars, pureVars, extVars>>

\* one step of run_loop when every read gives a frame and every image
\* encodes and decodes
LoopStepLong ==
  \/ ProcessFrame(TRUE, 0, 0, TRUE)
  \/ \E nb \in BoxCounts, sc \in SmokeScores : ProcessFrame(TRUE, nb, sc, TRUE)
  \/ DrainOne
  \/ DrainDone
  \/ TriggerFire([i \in 0..(ring - 1) |-> TRUE], TRUE)
  \/ NoTrigger
  \/ Publish

\* The loop and the fire worker over a longer time, one cooldown per clock
\* step, started without Telegram, when the snapshot files can be written.
NextLong ==
  \/ Wait
  \/ LoopStepLong
  \/ WorkerLoadOk
  \/ WorkerLoadFail
  \/ WorkerGet
  \/ \E outs \in [1..(IF wpc = "process" THEN wjob.rois_jpeg ELSE 0) -> FrameOutcomes] :
       \E render_ok \in BOOLEAN : WorkerProcess(outs, render_ok, Slots, Slots, TRUE)
  \/ WorkerPut

\* The loop keeps reading frames and time keeps passing; a put blocked on a
\* full out_q goes through once the queue has room.
SpecLong ==
  /\ Init
  /\ [][NextLong]_vars
  /\ WF_vars(LoopStepLong)
  /\ SF_vars(Wait)
  /\ WF_vars(WorkerPut)

\* The loop never gets a Result from a worker that is stuck.
NextStall ==
  \/ NextLong
  \/ WorkerStall

SpecStall == Init /\ [][NextStall]_vars

\* one step of run_loop when every read gives a frame, every image encodes
\* and decodes and smoke scores above the floor of the alerter
LoopStepAll ==
  \/ ProcessFrame(TRUE, 0, 0, TRUE)
  \/ \E nb \in BoxCounts : ProcessFrame(TRUE, nb, 90, TRUE)
  \/ DrainOne
  \/ DrainDone
  \/ TriggerFire([i \in 0..(ring - 1) |-> TRUE], TRUE)
  \/ NoTrigger
  \/ Publish

\* The whole program started with valid Telegram credentials: the loop, the
\* fire worker and the sender thread of the alerter of run_loop, one cooldown
\* per clock step, when every image encodes and decodes and the snapshot of
\* the worker is drawn and written.  The sender thread of the alerter of the
\* worker is left out: the tasks that alerter accepts stay in its queue.
NextAll ==
  \/ Wait
  \/ LoopStepAll
  \/ WorkerLoadOk
  \/ WorkerLoadFail
  \/ WorkerGet
  \/ \E outs \in [1..(IF wpc = "process" THEN wjob.rois_jpeg ELSE 0) -> FrameOutcomes] :
       WorkerProcess(outs, TRUE, Slots, Slots, TRUE)
  \/ WorkerPut
  \/ SenderGet
  \/ \E ok \in BOOLEAN : SenderDeliver(ok)

SpecAll == InitWith(TRUE, TRUE) /\ [][NextAll]_vars

\* ------------------------------------------------- the burst sampler alone
\* capacity of the ring and number of captured frames explored for the sampler
SamplerRingLen == 5
SamplerFrames == 6
\* values of --burst-stride and --burst-frames
Strides == 0..3
Needs == 0..3

\* A frame is captured; when it encodes (ok) it is appended to the ring.
\* Frames are numbered 1, 2, ... in capture order.
CaptureFrame(ok) ==
  /\ ~s_burst.built
  /\ Len(s_seen) < SamplerFrames
  /\ s_seen' = Append(s_seen, ok)
  /\ s_ring' = IF ok THEN RingAppend(s_ring, Len(s_seen) + 1, SamplerRingLen) ELSE s_ring
  /\ UNCHANGED <<clock, mainVars, job_q, out_q, workerVars, alerterVars, histVars,
                 callVars, deliveryVars, drainVars, resultVars, s_burst, roi, scored, extVars>>

\* The burst of a Job is built from the ring as it is, once; good: the
\* indices of the ring entries that decode, crop and encode; live_ok: the live
\* frame encodes.
SampleBurst(stride_arg, need, good, live_ok) ==
  /\ ~s_burst.built
  /\ good \subseteq 0..(Len(s_ring) - 1)
  /\ s_burst' = [built |-> TRUE, len |-> Len(s_ring), stride |-> stride_arg,
                 need |-> need, good |-> good, live_ok |-> live_ok,
                 items |-> BuildBurst(Len(s_ring), stride_arg, need,
                                      [i \in 0..(Len(s_ring) - 1) |-> i \in good],
                                      live_ok)]
  /\ UNCHANGED <<clock, mainVars, job_q, out_q, workerVars, alerterVars, histVars,
                 callVars, deliveryVars, drainVars, resultVars, s_ring, s_seen, roi, scored, extVars>>

NextSampler ==
  \/ \E ok \in BOOLEAN : CaptureFrame(ok)
  \/ /\ ~s_burst.built
     /\ \E stride_arg \in Strides, need \in Needs, live_ok \in BOOLEAN :
          \E good \in SUBSET (0..(Len(s_ring) - 1)) :
            SampleBurst(stride_arg, need, good, live_ok)

SpecSampler == Init /\ [][NextSampler]_vars

\* ------------------------------------------------- the ROI utilities alone
\* how many smoke boxes a frame can have
RoiBoxCounts == 0..2
\* box coordinates (a box may reach outside the frame and may be empty),
\* values of --roi-margin, frame sizes
BoxXs == {-2, 0, 1, 3, 6}
BoxYs == {0, 3}
Margins == {-1, 0, 1}
FrameWs == {2, 5}
FrameHs == {2, 4}
Boxes == {<<x1, y1, x2, y2>> : x1 \in BoxXs, y1 \in BoxYs, x2 \in BoxXs, y2 \in BoxYs}

\* the ROI of one trigger is computed from the smoke boxes of the frame
ComputeRoi(dets, margin, W, H) ==
  /\ ~roi.built
  /\ roi' = [built |-> TRUE, dets |-> dets, margin |-> margin, W |-> W, H |-> H,
             ub |-> UnionBoxes(dets), box |-> RoiBox(dets, margin, W, H)]
  /\ UNCHANGED <<clock, mainVars, job_q, out_q, workerVars, alerterVars, histVars,
                 callVars, deliveryVars, drainVars, resultVars, s_ring, s_seen, s_burst, scored, extVars>>

NextRoi ==
  /\ ~roi.built
  /\ \E n \in RoiBoxCounts :
       \E dets \in [1..n -> Boxes], margin \in Margins, W \in FrameWs, H \in FrameHs :
         ComputeRoi(dets, margin, W, H)

SpecRoi == Init /\ [][NextRoi]_vars

\* ------------------------------------------------ the fire worker on its own
\* how far the clock runs past StartTime for the worker on its own, and the
\* longest burst a Job carries there
WorkerHorizon == 6
WorkerMaxTime == StartTime + WorkerHorizon
WorkerBurstMax == 2
\* top scores of a burst frame, with --fire-conf at 0.4 or below
WorkerScores == {40, 80}
WorkerOutcomes == {-1, 0} \cup WorkerScores

\* a fire-check cooldown passes
WorkerWait ==
  /\ clock + CheckCooldown <= WorkerMaxTime
  /\ clock' = clock + CheckCooldown
  /\ UNCHANGED <<mainVars, job_q, out_q, workerVars, alerterVars, histVars, callVars,
                 deliveryVars, drainVars, resultVars, pureVars, extVars>>

\* run_loop submits a Job with a burst of n frames, at least a cooldown after
\* its previous submission
FeedJob(n) ==
  /\ clock - last_attempt >= CheckCooldown
  /\ job_q' = PutNowait(job_q, [rois_jpeg |-> n, meta |-> [ts |-> clock]])
  /\ last_attempt' = clock
  /\ UNCHANGED <<clock, mainVars, out_q, workerVars, alerterVars, attempted, accepted,
                 lfc_start, t_confirm, alert_tried, alert_ret, run_alerts, hist, callVars,
                 deliveryVars, drainVars, resultVars, pureVars, extVars>>

\* run_loop takes a Result
TakeResult ==
  /\ out_q # <<>>
  /\ out_q' = GetNowait(out_q)
  /\ r_owed' = Tail(r_owed)
  /\ UNCHANGED <<clock, mainVars, job_q, workerVars, alerterVars, histVars, callVars,
                 deliveryVars, drainVars, pureVars, extVars>>

\* The worker process started with valid Telegram credentials, its alerter and
\* the sender thread of that alerter, with run_loop as the producer of Jobs
\* and the consumer of Results.
NextWorker ==
  \/ WorkerWait
  \/ \E n \in 0..WorkerBurstMax : FeedJob(n)
  \/ TakeResult
  \/ WorkerLoadOk
  \/ WorkerGet
  \/ \E outs \in [1..(IF wpc = "process" THEN wjob.rois_jpeg ELSE 0) -> WorkerOutcomes] :
       \E render_ok, enc_ok \in BOOLEAN, listed \in SUBSET Slots :
         \E wrote \in SUBSET listed :
           WorkerProcess(outs, render_ok, listed, wrote, enc_ok)
  \/ WorkerPut
  \/ WorkerSenderGet
  \/ \E ok \in BOOLEAN : WorkerSenderDeliver(ok)

SpecWorker == InitWith(TRUE, TRUE) /\ [][NextWorker]_vars

\* ------------------------------------------------- the status dict, served
\* The loop with its status update taken one assignment at a time, the fire
\* worker, and a client of /api/status, one cooldown per clock step, when
\* every image encodes and decodes and every burst frame shows fire.
NextStatus ==
  \/ Wait
  \/ ProcessFrame(TRUE, 0, 0, TRUE)
  \/ \E nb \in BoxCounts : ProcessFrame(TRUE, nb, 90, TRUE)
  \/ DrainOne
  \/ DrainDone
  \/ TriggerFire([i \in 0..(ring - 1) |-> TRUE], TRUE)
  \/ NoTrigger
  \/ StatusLock
  \/ StatusWrite
  \/ StatusUnlock
  \/ ApiStatus
  \/ ApiReturn
  \/ WorkerLoadOk
  \/ WorkerGet
  \/ WorkerProcess([i \in 1..(IF wpc = "process" THEN wjob.rois_jpeg ELSE 0) |-> 80],
                   TRUE, Slots, Slots, TRUE)
  \/ WorkerPut

SpecStatus == Init /\ [][NextStatus]_vars

\* ------------------------------------------------- the alerter, stopped
\* A TelegramAlerter object within one cooldown, with threads that call it
\* with a confidence above the floor (one alert of each kind fills the
\* queue), a thread that calls stop() once, and its sender thread, which keeps
\* running: requests.post has a timeout, so a delivery returns.
NextStop ==
  \/ \E c \in CallerIds, k \in Kinds : CallBegin(c, k, 90)
  \/ \E c \in CallerIds : CallLock(c)
  \/ \E c \in CallerIds : CallPut(c, TRUE)
  \/ StopBegin
  \/ StopPut
  \/ SenderStep

SpecStop == InitWith(TRUE, TRUE) /\ [][NextStop]_vars /\ WF_vars(SenderStep)

\* ------------------------------------------------------- nms_xyxy alone
\* most boxes in a call, the boxes, scores and thresholds tried: boxes that
\* are equal, nested, overlapping by a half, by a third, and apart
NmsMaxBoxes == 3
NmsBoxes == {<<0, 0, 1, 0>>, <<1, 0, 2, 0>>, <<0, 0, 3, 0>>, <<0, 0, 2, 0>>, <<5, 0, 6, 1>>}
NmsScores == {50, 90}
NmsThresholds == {30, 50}

\* one call of nms_xyxy, in which argsort gave order
Nms(boxes, scores, thr, order) ==
  /\ ~nms.built
  /\ order \in ArgsortDesc(scores)
  /\ nms' = [built |-> TRUE, boxes |-> boxes, scores |-> scores, thr |-> thr,
             order |-> order, keep |-> NmsLoop(boxes, order, thr)]
  /\ UNCHANGED <<clock, mainVars, job_q, out_q, workerVars, alerterVars, histVars,
                 callVars, deliveryVars, drainVars, resultVars, pureVars, statusVars,
                 snapVars, walertVars, lockVars, stopVars,
                 argVars, orderVars, gcsVars>>

NextNms ==
  /\ ~nms.built
  /\ \E n \in 0..NmsMaxBoxes :
       \E boxes \in [1..n -> NmsBoxes], scores \in [1..n -> NmsScores],
          thr \in NmsThresholds :
         \E order \in ArgsortDesc(scores) : Nms(boxes, scores, thr, order)

SpecNms == Init /\ [][NextNms]_vars

\* ------------------------------------------------- short bursts
\* values of --burst-frames below --fire-confirm
ShortBursts == {0, 1}

\* started without Telegram, with --burst-frames as configured above or short
InitBursts ==
  \E b \in ShortBursts \cup {BurstFrames} :
    InitArgs(FALSE, FALSE, [fire_confirm |-> FireConfirm, burst_frames |-> b])

\* the loop and the fire worker, one cooldown per clock step
SpecBursts == InitBursts /\ [][NextLong]_vars

\* ------------------------------------------- the ground station's poller
\* what /api/fire_status reports: has_smoke, has_fire, smoke_conf, fire_conf
Report(hs, hf, sc, fc) == [has_smoke |-> hs, has_fire |-> hf, smoke_conf |-> sc, fire_conf |-> fc]

\* reports around the smoke pause: nothing, weak smoke, strong smoke, strong
\* smoke with fire
PauseReports == {Report(FALSE, FALSE, 0, 0), Report(TRUE, FALSE, 50, 0),
                 Report(TRUE, FALSE, 90, 0), Report(TRUE, TRUE, 90, 90)}

\* the gaps between two polls, in seconds, and the time followed
PauseGaps == {2, 18}
PauseHorizon == 24

\* the poller and the mission it pauses
NextPause ==
  \/ \E dt \in PauseGaps, r \in PauseReports, resp_ok, gps_ok \in BOOLEAN :
       /\ clock + dt <= StartTime + PauseHorizon
       /\ Poll(dt, resp_ok, r.has_smoke, r.has_fire, r.smoke_conf, r.fire_conf, gps_ok)
  \/ SetCurrentMission
  \/ StartMissionExecution
  \/ \E at_wp \in BOOLEAN : ResumeMissionAfterSmoke(at_wp)

SpecPause == Init /\ [][NextPause]_vars

\* the mission's threads next to a poller that sees strong smoke or nothing
MissionReports == {Report(FALSE, FALSE, 0, 0), Report(TRUE, FALSE, 90, 0)}
MissionHorizon == 4

NextMission ==
  \/ \E r \in MissionReports :
       /\ clock + 1 <= StartTime + MissionHorizon
       /\ Poll(1, TRUE, r.has_smoke, r.has_fire, r.smoke_conf, r.fire_conf, TRUE)
  \/ SetCurrentMission
  \/ StartMissionExecution
  \/ FollowerCheck
  \/ \E near \in BOOLEAN : FollowerAct(near)
  \/ AutoAdvanceWaypoint
  \/ \E at_wp \in BOOLEAN : ResumeMissionAfterSmoke(at_wp)

SpecMission == Init /\ [][NextMission]_vars

\* the alert window of the poller, with no mission
WindowGaps == {1, 2}
WindowHorizon == 8

NextWindow ==
  \E dt \in WindowGaps, resp_ok, hs, hf \in BOOLEAN, sc, fc \in GcsConfs :
    /\ clock + dt <= StartTime + WindowHorizon
    /\ Poll(dt, resp_ok, hs, hf, sc, fc, TRUE)

SpecWindow == Init /\ [][NextWindow]_vars

\* ------------------------------------------------- the burst scoring alone
\* longest burst scored and what a frame can give
ScoreBurstMax == 3
ScoreOutcomes == {-1, 0, 40, 80, 90}

\* the loop over rois_jpeg of fire_worker_main on a burst whose frames give outs
ScoreBurst(outs) ==
  /\ ~scored.built
  /\ scored' = [built |-> TRUE, outs |-> outs, hits |-> FireHits(outs),
                best |-> BestScore(outs, 0), frame |-> BestFrame(outs, 1, 0, 0)]
  /\ UNCHANGED <<clock, mainVars, job_q, out_q, workerVars, alerterVars, histVars,
                 callVars, deliveryVars, drainVars, resultVars, s_ring, s_seen, s_burst,
                 roi, extVars>>

NextScore ==
  /\ ~scored.built
  /\ \E n \in 0..ScoreBurstMax : \E outs \in [1..n -> ScoreOutcomes] : ScoreBurst(outs)

SpecScore == Init /\ [][NextScore]_vars

\* ================================================================ claims
MainStep == TriggerFire([i \in 0..(ring - 1) |-> TRUE], TRUE) \/ NoTrigger

\* C1: after every processed frame smoke_consec is the number of consecutive
\* smoke frames ending at that frame (a frame without smoke puts it back to
\* 0), and smoke_confirmed holds exactly when that number is at least N, that
\* is exactly when the latest N frames all had smoke.
GateCounts ==
  /\ [](hist # <<>> =>
         /\ TrailingRun(hist) < SmokeConsecN => smoke_consec = TrailingRun(hist)
         /\ TrailingRun(hist) = SmokeConsecN => smoke_consec >= SmokeConsecN
         /\ smoke_confirmed <=> (smoke_consec >= SmokeConsecN)
         /\ smoke_confirmed <=> (TrailingRun(hist) = SmokeConsecN))
  /\ [][pc = "frame" /\ pc' = "drain" =>
          smoke_consec' = (IF hist'[Len(hist')] THEN smoke_consec + 1 ELSE 0)]_vars

\* C1 witness: a run went one frame past N and is still confirmed
GateCountsSeen ==
  /\ smoke_consec = SmokeConsecN + 1
  /\ smoke_confirmed
  /\ hist = [i \in 1..SmokeConsecN |-> TRUE]

\* C2: in every iteration the burst branch runs (a Job is built and its
\* submission attempted) exactly when smoke is confirmed, the cooldown since
\* last_fire_check as it stood when the iteration tested it has elapsed, and
\* has_fire of this iteration is false.
TriggerIff ==
  pc = "publish" =>
    (attempted <=> (smoke_confirmed /\ now - lfc_start >= CheckCooldown /\ ~has_fire))

\* C2 witness: an iteration that attempted a submission
TriggerIffSeen == pc = "publish" /\ attempted /\ smoke_confirmed /\ ~has_fire

\* C3: has_fire of an iteration at time now holds exactly when a confirming
\* Result was drained at some time t_c, the latest such, and now < t_c + hold.
HoldWindow ==
  pc \in {"trigger", "publish"} =>
    (has_fire <=> (t_confirm # 0 /\ now < t_confirm + FireHold))

\* C3 witness: the hold expired exactly FireHold after the confirming Result
HoldWindowSeen ==
  /\ pc = "publish"
  /\ t_confirm # 0
  /\ now = t_confirm + FireHold
  /\ ~has_fire

\* C4: every Job the worker takes gets exactly one Result: the worker never
\* ends while it owes the Result of a Job it took.
OneResultPerJob ==
  /\ w_owed \in {0, 1}
  /\ wpc \in {"crashed", "exited"} => w_owed = 0

\* C5: a submission made while job_q holds a Job does not block the loop; the
\* new Job is dropped, the pending one stays as it is, the iteration goes on.
DropOnFull ==
  /\ [](pc = "trigger" => ENABLED MainStep)
  /\ [][(pc = "trigger" /\ attempted' /\ Len(job_q) >= JobQMax) =>
          (job_q' = job_q /\ ~accepted' /\ pc' = "publish")]_vars

\* C5 witness: a Job was dropped and the pending Job is still in the queue
DropOnFullSeen ==
  /\ pc = "publish"
  /\ attempted
  /\ ~accepted
  /\ Len(job_q) = JobQMax
  /\ job_q[1].meta.ts < now

\* Jobs accepted by job_q whose Result the worker has not emitted yet
Outstanding == Len(job_q) + w_owed

\* C6 as claimed: at most one Job is outstanding, a Job being processed included
OneOutstanding == Outstanding <= 1

\* C6 amended: job_q never holds more than one Job, so at most one Job waits
\* while at most one more is being processed by the worker.
OneQueuedOneRunning ==
  /\ Len(job_q) <= JobQMax
  /\ w_owed <= 1
  /\ Outstanding <= JobQMax + 1

\* C6 witness: one Job waits in job_q while the worker processes another
OneQueuedOneRunningSeen == Len(job_q) = 1 /\ wpc = "process" /\ w_owed = 1

\* C7: an iteration that attempted a submission at time now ends with
\* last_fire_check = now, whether job_q took the Job or not.
CheckTimeAfterAttempt ==
  (pc = "publish" /\ attempted) => last_fire_check = now

\* C7 witness: the attempt was rejected and last_fire_check is the attempt time
CheckTimeAfterAttemptSeen ==
  pc = "publish" /\ attempted /\ ~accepted /\ last_fire_check = now

\* C8 as claimed: with smoke confirmed and no hold, an iteration attempts a
\* submission exactly when it is at least the cooldown after the previous attempt
AttemptIffCooldownSincePrevious ==
  [][(pc = "trigger" /\ pc' = "publish" /\ smoke_confirmed /\ ~has_fire) =>
       (attempted' <=> now - last_attempt >= CheckCooldown)]_vars

\* C8 amended: two successive attempts are at least the cooldown apart, and
\* with smoke confirmed and no hold an iteration attempts a submission exactly
\* when it is at least the cooldown after last_fire_check as the iteration
\* read it, which is never before the previous attempt (a successful Result
\* drained since then moves it later).
AttemptSpacing ==
  [][(pc = "trigger" /\ pc' = "publish") =>
       /\ lfc_start >= last_attempt
       /\ attempted' => now - last_attempt >= CheckCooldown
       /\ (smoke_confirmed /\ ~has_fire) =>
            (attempted' <=> now - lfc_start >= CheckCooldown)]_vars

\* C8 witness: an attempt made at least the cooldown after an earlier one
AttemptSpacingSeen ==
  /\ pc = "publish"
  /\ attempted
  /\ lfc_start # 0
  /\ now - lfc_start >= CheckCooldown


\* C9 as claimed: the smoke alert is dispatched on the frame where the
\* counter first reaches N and on no other frame
AlertOnlyOnEdge ==
  pc = "drain" => (alert_tried <=> smoke_consec = SmokeConsecN)

\* alerts accepted in the current run before the latest frame
EarlierAlerts == run_alerts - (IF alert_ret THEN 1 ELSE 0)

\* C9 amended: with an alerter configured the smoke alert is attempted on the
\* frame where the counter first reaches N and on every later frame of the
\* run until one attempt is accepted, never before N and never after an
\* acceptance, so a run has at most one accepted alert; smoke_confirmed stays
\* true as long as the counter is at least N.
AlertUntilAccepted ==
  pc = "drain" =>
    /\ alert_tried <=> (smoke_consec >= SmokeConsecN /\ EarlierAlerts = 0)
    /\ smoke_consec = SmokeConsecN => alert_tried
    /\ run_alerts <= 1
    /\ smoke_confirmed <=> (smoke_consec >= SmokeConsecN)

\* C9 witness: the alert was rejected at N and accepted on a later frame of the run
AlertUntilAcceptedSeen ==
  /\ pc = "drain"
  /\ smoke_consec > SmokeConsecN
  /\ alert_tried
  /\ alert_ret

\* thread c returns from its call in this step, having passed the early returns
Returns(c) == callers[c].pc # "idle" /\ callers'[c].pc = "idle"

\* the call of thread c is less than the cooldown of its kind after time t0
Within(c, t0) ==
  t0 # 0 /\ callers[c].now - t0 < KindCooldown(tg, callers[c].kind)

\* C10 as claimed: with valid credentials and confidence at least the floor a
\* call returns false when it is less than the cooldown of its kind after an
\* accepted call of that kind, and true otherwise
TrueUnlessCooldown ==
  [][\A c \in CallerIds :
       Returns(c) => (last_ret' <=> ~Within(c, acc[callers[c].kind]))]_vars

\* C10 amended: with valid credentials and confidence at least the floor a
\* call returns false when it is less than the cooldown of its kind after the
\* latest call of that kind that passed the cooldown test (so in particular
\* after an accepted one), whatever happened to calls of the other kind;
\* otherwise it goes on to encode and enqueue, and returns true exactly when
\* a task was added to the queue.
CooldownPerKind ==
  [][\A c \in CallerIds :
       LET k == callers[c].kind IN
       /\ acc[k] <= passed[k]
       /\ (callers[c].pc = "lock" /\ callers'[c].pc # "lock") =>
            /\ Within(c, passed[k]) <=> callers'[c].pc = "idle"
            /\ Within(c, acc[k]) => (callers'[c].pc = "idle" /\ ~last_ret')
            /\ callers'[c].pc = "put" => passed'[k] = callers[c].now
       /\ (callers[c].pc = "put" /\ callers'[c].pc = "idle") =>
            /\ last_ret' <=> Len(tg'.queue) = Len(tg.queue) + 1
            /\ last_ret' => acc'[k] = callers[c].now]_vars

\* C10 witness: a fire alert was accepted less than the smoke cooldown after
\* an accepted smoke alert
CooldownPerKindSeen ==
  /\ acc["smoke"] # 0
  /\ acc["fire"] >= acc["smoke"]
  /\ acc["fire"] - acc["smoke"] < tg.smoke_cooldown
  /\ last_ret

\* C11: a call of send_smoke_alert / send_fire_alert that returns False
\* because the alerter is disabled, the confidence is below the floor, the
\* cooldown of its kind has not elapsed or the task queue is full leaves the
\* alerter as it found it: both timestamps and the task queue are unchanged.
\* (The image encodes, so these are the only reasons for False.)
NoTraceOfRejected ==
  \A k \in Kinds, conf \in AlertConfs :
    LET r == SendAlert(tg, k, conf, clock, TRUE) IN
    ~r.ret => r.obj = tg

\* threads c and d are inside calls of the same kind whose clock readings are
\* less than the cooldown of that kind apart
Racing(c, d) ==
  /\ c # d
  /\ callers[c].pc # "idle"
  /\ callers[d].pc # "idle"
  /\ callers[c].kind = callers[d].kind
  /\ callers[c].now - callers[d].now < KindCooldown(tg, callers[c].kind)
  /\ callers[d].now - callers[c].now < KindCooldown(tg, callers[c].kind)

\* C12: of two threads inside send_<kind>_alert for the same kind at the same
\* time (clock readings less than the cooldown apart) at most one passes the
\* cooldown test, in every interleaving: they are never both past the lock,
\* and once one is past it the other fails the test and returns False.  The
\* test and the write of the timestamp are one step under self._lock, so the
\* timestamp is never older than the reading of a thread that passed.
AtMostOnePasses ==
  /\ [](\A c, d \in CallerIds :
          /\ Racing(c, d) => ~(callers[c].pc = "put" /\ callers[d].pc = "put")
          /\ callers[c].pc = "put" => LastTime(tg, callers[c].kind) >= callers[c].now)
  /\ [][\A c, d \in CallerIds :
          (Racing(c, d) /\ callers[c].pc = "put" /\ callers[d].pc = "lock"
             /\ callers'[d].pc # "lock")
          => (callers'[d].pc = "idle" /\ ~last_ret')]_vars

\* C12 witness: two threads read the same clock for the same kind; one is past
\* the lock, the other is about to make the test
AtMostOnePassesSeen ==
  /\ callers["a"].pc = "put"
  /\ callers["b"].pc = "lock"
  /\ callers["a"].kind = callers["b"].kind
  /\ callers["a"].now = callers["b"].now

\* the tasks the alerter holds: the one the sender thread is delivering, then
\* the queue
Held == (IF spc = "send" THEN <<stask>> ELSE <<>>) \o tg.queue

\* C13: the one sender thread takes the accepted tasks in the order of their
\* acceptance and attempts the delivery of each once: the tasks it holds are
\* always the accepted tasks not yet attempted, oldest first; the task it takes
\* is the oldest of them; after an attempt, successful or failed, the task is
\* gone (nothing is put back) and the thread is ready for the next task.
FifoOnce ==
  /\ [](Held = enq)
  /\ [][(spc = "get" /\ spc' = "send") => stask' = Head(enq)]_vars
  /\ [][(spc = "send" /\ spc' = "get") =>
          (tg'.queue = tg.queue /\ Held' = Tail(Held) /\ stask' = NoTask)]_vars

\* C13 witness: an earlier smoke alert was delivered; a fire alert accepted
\* after it is being delivered while a smoke alert accepted later still waits
FifoOnceSeen ==
  /\ spc = "send"
  /\ stask.kind = "fire"
  /\ Len(tg.queue) = 1
  /\ tg.queue[1].kind = "smoke"
  /\ acc["fire"] > StartTime
  /\ acc["smoke"] > acc["fire"]

\* C14: every buffer stays within its capacity in every reachable state: the
\* ring (a deque with maxlen), job_q, out_q and the task queue of the alerter.
AllBounded ==
  /\ ring \in 0..RingMaxLen
  /\ Len(job_q) <= JobQMax
  /\ Len(out_q) <= OutQMax
  /\ Len(tg.queue) <= TgQueueMax

\* C14 witness: the four buffers are full at the same time
AllBoundedSeen ==
  /\ ring = RingMaxLen
  /\ Len(job_q) = JobQMax
  /\ Len(out_q) = OutQMax
  /\ Len(tg.queue) = TgQueueMax

\* C15: while the loop keeps processing frames and time keeps passing, has_fire
\* never stays true: whenever it is true it is false again later.  (The model
\* stops the clock at LongMaxTime, so a hold that ends after that is left out.)
HoldExpires == has_fire ~> (~has_fire \/ fire_hold_until > LongMaxTime)

\* C15 witness: a hold started by a confirming Result has run out while smoke
\* is still confirmed
HoldExpiresSeen ==
  /\ pc = "publish"
  /\ ~has_fire
  /\ smoke_confirmed
  /\ last_fire_confirm > 0
  /\ fire_hold_until = last_fire_confirm + FireHold
  /\ now >= fire_hold_until

\* the ring indices in the latest burst
FromRing == {s_burst.items[k] : k \in 1..Len(s_burst.items)} \ {Live}

\* C16 as claimed: the burst has at most `need` frames, and when no ring frame
\* was collected it is exactly the live frame
BurstAtMostNeed ==
  s_burst.built =>
    /\ Len(s_burst.items) <= s_burst.need
    /\ FromRing = {} => s_burst.items = <<Live>>

\* C16 amended: for every ring, stride and need the burst is built (the walk
\* ends, also for a stride below 1) and has at most max(need, 1) frames: at
\* most `need` ring frames, or, when no ring frame was collected, the live
\* frame alone if it encodes and nothing if it does not.
BurstAtMostNeedOrLive ==
  /\ [](\A st \in Strides, nd \in Needs, lv \in BOOLEAN :
          ~s_burst.built =>
          /\ ENABLED SampleBurst(st, nd, {}, lv)
          /\ ENABLED SampleBurst(st, nd, 0..(Len(s_ring) - 1), lv))
  /\ [](s_burst.built =>
          /\ Len(s_burst.items) <= Max(s_burst.need, 1)
          /\ FromRing \subseteq 0..(s_burst.len - 1)
          /\ FromRing # {} => (Len(s_burst.items) <= s_burst.need
                               /\ Cardinality(FromRing) = Len(s_burst.items))
          /\ FromRing = {} =>
               s_burst.items = (IF s_burst.live_ok THEN <<Live>> ELSE <<>>))

\* C16 witness: the ring held frames but none could be used, and the burst is
\* the live frame
BurstAtMostNeedOrLiveSeen ==
  /\ s_burst.built
  /\ s_burst.len >= 2
  /\ s_burst.need >= 2
  /\ s_burst.items = <<Live>>

\* the ring indices the walk of the latest burst visits, and those it can use
Visited ==
  {i \in 0..(s_burst.len - 1) : (s_burst.len - 1 - i) % Max(1, s_burst.stride) = 0}

Usable == Visited \cap s_burst.good

\* the frames that encoded, by number
Encoded == {i \in 1..Len(s_seen) : s_seen[i]}

InRing == {s_ring[k] : k \in 1..Len(s_ring)}

\* C17: the ring holds the latest frames that encoded, oldest first, and a
\* burst taken from it is made of the newest usable entries among the indices
\* len-1, len-1-stride, len-1-2*stride, ... >= 0, newest first, as many as
\* `need` asks for or as there are; an entry that fails to decode or encode is
\* passed over and does not count.  (60 entries, stride 2, need 6: 59, 57, 55,
\* 53, 51, 49.)
SamplerOrder ==
  /\ Len(s_ring) = Min(Cardinality(Encoded), SamplerRingLen)
  /\ InRing \subseteq Encoded
  /\ \A k \in 1..(Len(s_ring) - 1) : s_ring[k] < s_ring[k + 1]
  /\ \A i \in Encoded \ InRing : \A j \in InRing : i < j
  /\ s_burst.built =>
       /\ FromRing \subseteq Usable
       /\ Cardinality(FromRing) = Min(s_burst.need, Cardinality(Usable))
       /\ \A i \in Usable \ FromRing : \A j \in FromRing : i < j
       /\ FromRing # {} =>
            /\ Len(s_burst.items) = Cardinality(FromRing)
            /\ \A k \in 1..(Len(s_burst.items) - 1) :
                 s_burst.items[k] > s_burst.items[k + 1]
  /\ BurstWalk(59, 0, 2, 6, [i \in 0..59 |-> TRUE]) = <<59, 57, 55, 53, 51, 49>>

\* C17 witness: the ring lost its oldest frame; the newest entry could not be
\* used and the burst is the next two visited entries
SamplerOrderSeen ==
  /\ Cardinality(Encoded) > SamplerRingLen
  /\ s_burst.built
  /\ s_burst.len = SamplerRingLen
  /\ s_burst.stride = 2
  /\ s_burst.need = 2
  /\ (SamplerRingLen - 1) \notin s_burst.good
  /\ s_burst.items = <<SamplerRingLen - 3, SamplerRingLen - 5>>

\* the box given to expand_box in the latest ROI computation, and its sides
\* after growing by the margin and clamping to the frame
RoiIn == IF roi.ub = <<>> THEN <<0, 0, roi.W - 1, roi.H - 1>> ELSE roi.ub

ClampedX1 == Clamp(RoiIn[1] - (RoiIn[3] - RoiIn[1]) * roi.margin, roi.W - 1)

ClampedY1 == Clamp(RoiIn[2] - (RoiIn[4] - RoiIn[2]) * roi.margin, roi.H - 1)

ClampedX2 == Clamp(RoiIn[3] + (RoiIn[3] - RoiIn[1]) * roi.margin, roi.W - 1)

ClampedY2 == Clamp(RoiIn[4] + (RoiIn[4] - RoiIn[2]) * roi.margin, roi.H - 1)

\* C18: for a non-empty set of boxes union_boxes gives a box that contains
\* each of them; expand_box gives a box with x in [0, W-1] and y in [0, H-1],
\* which is the whole frame <<0, 0, W-1, H-1>> whenever the clamped width or
\* height is at most 2 px and the clamped box otherwise.
RoiInsideFrame ==
  roi.built =>
    /\ roi.dets # <<>> =>
         \A i \in 1..Len(roi.dets) :
           /\ roi.ub[1] <= roi.dets[i][1]
           /\ roi.ub[2] <= roi.dets[i][2]
           /\ roi.ub[3] >= roi.dets[i][3]
           /\ roi.ub[4] >= roi.dets[i][4]
    /\ roi.box[1] \in 0..(roi.W - 1)
    /\ roi.box[3] \in 0..(roi.W - 1)
    /\ roi.box[2] \in 0..(roi.H - 1)
    /\ roi.box[4] \in 0..(roi.H - 1)
    /\ (ClampedX2 - ClampedX1 <= 2 \/ ClampedY2 - ClampedY1 <= 2)
         => roi.box = <<0, 0, roi.W - 1, roi.H - 1>>
    /\ (ClampedX2 - ClampedX1 > 2 /\ ClampedY2 - ClampedY1 > 2)
         => roi.box = <<ClampedX1, ClampedY1, ClampedX2, ClampedY2>>

\* C18 witness: two boxes whose union, grown and clamped, is exactly 2 px
\* wide in a frame wider than that: the ROI is the whole frame
RoiInsideFrameSeen ==
  /\ roi.built
  /\ Len(roi.dets) = 2
  /\ roi.dets[1] # roi.dets[2]
  /\ roi.W = 5
  /\ roi.H = 4
  /\ ClampedX2 - ClampedX1 = 2
  /\ ClampedY2 - ClampedY1 > 2
  /\ roi.box = <<0, 0, 4, 3>>

\* C19: out_q loses and repeats nothing: it always holds exactly the Results
\* put and not yet taken, in order.  A worker whose put finds out_q full waits
\* with its Result and puts it when there is room.  The drain of an iteration
\* never waits and ends only when out_q is empty.  While the loop keeps
\* processing frames, every Result in out_q is taken and a waiting worker
\* gets to put its Result.
ResultsDelivered ==
  /\ [](out_q = r_owed)
  /\ [](pc = "drain" => ENABLED (DrainOne \/ DrainDone))
  /\ [][(pc = "drain" /\ pc' # "drain") => out_q = <<>>]_vars
  /\ [][(wpc = "put" /\ Len(out_q) >= OutQMax) =>
          (wpc' = "put" /\ wres' = wres /\ Len(out_q') <= Len(out_q))]_vars
  /\ [][(wpc = "put" /\ wpc' # "put") => out_q' = Append(out_q, wres)]_vars
  /\ (out_q # <<>>) ~> (out_q = <<>>)
  /\ (wpc = "put") ~> (wpc = "get")

\* C19 witness: the worker waits with a Result while out_q is full
ResultsDeliveredSeen ==
  /\ wpc = "put"
  /\ wres.ok
  /\ Len(out_q) = OutQMax
  /\ out_q = r_owed

\* C20 as claimed: no submission is attempted less than the cooldown after the
\* drain of a successful Result, the iteration that drained it included
NoTriggerSoonAfterDrain ==
  [][(pc = "trigger" /\ attempted') =>
       (t_drain = 0 \/ now - t_drain >= CheckCooldown)]_vars

\* C20 amended: no later iteration attempts a submission less than the
\* cooldown after the drain of a successful Result.  The iteration that
\* drains it made its cooldown test before the drain, on last_fire_check as
\* it stood then, and can still attempt a submission.
NoTriggerOnLaterTicks ==
  /\ [](d_start <= lfc_start)
  /\ [](pc \in {"drain", "trigger"} =>
          (should_check_fire <=> (smoke_confirmed /\ now - lfc_start >= CheckCooldown)))
  /\ [][(pc = "trigger" /\ attempted') =>
          (d_start = 0 \/ now - d_start >= CheckCooldown)]_vars

\* C20 witness: an iteration drained a successful Result and attempted a
\* submission
NoTriggerOnLaterTicksSeen ==
  /\ pc = "publish"
  /\ attempted
  /\ t_drain = now
  /\ d_start < now
  /\ lfc_start > 0

\* the loop takes a Result from out_q in this step
Drains == pc = "drain" /\ out_q # <<>> /\ out_q' = Tail(out_q)

\* C21: every Result the loop drains, successful or failed, sets
\* last_fire_check to the time of the iteration that drains it.
DrainSetsCheckTime ==
  [][Drains => last_fire_check' = now]_vars

\* C22: a drained Result that lists written snapshots sets last_fire_snapshot
\* to the time of the iteration, whether or not its fire_hits reach the
\* threshold; last_fire_confirm is set exactly by the Results whose fire_hits
\* reach the threshold.
SnapshotTimeIndependent ==
  [][(Drains /\ Head(out_q).ok) =>
       /\ Head(out_q).saved > 0 => last_fire_snapshot' = now
       /\ IF Head(out_q).fire_hits >= FireConfirm
          THEN last_fire_confirm' = now
          ELSE last_fire_confirm' = last_fire_confirm]_vars

\* C25: a worker whose engine does not load puts one failed Result and ends:
\* it was never past the load, takes no Job and puts nothing more, and no Job
\* is ever owed a Result by it.  The only Result the loop ever drains is the
\* failed one, which leaves fire_hold_until, last_fire_confirm,
\* last_fire_snapshot (and last_fire_check) as they were, so has_fire is
\* false in every iteration.
LoadFailureOnce ==
  /\ [][(wpc = "load" /\ out_q' # out_q) =>
          (out_q' = <<FailedResult>> /\ wpc' = "exited")]_vars
  /\ [][wpc = "exited" =>
          /\ wpc' = "exited"
          /\ Len(out_q') <= Len(out_q)
          /\ Len(job_q') >= Len(job_q)
          /\ wjob' = NoJob
          /\ w_owed' = 0]_vars
  /\ [][(wpc = "exited" /\ Drains) =>
          /\ Head(out_q) = FailedResult
          /\ out_q' = <<>>
          /\ UNCHANGED <<fire_hold_until, last_fire_confirm, last_fire_snapshot,
                         last_fire_check, has_fire>>]_vars
  /\ [](wpc = "exited" =>
          /\ ~has_fire
          /\ fire_hold_until = 0
          /\ last_fire_confirm = 0
          /\ last_fire_snapshot = 0
          /\ t_drain = 0)

\* C25 witness: the failed Result was drained, and later a Job was submitted
\* that nobody will take
LoadFailureOnceSeen ==
  /\ wpc = "exited"
  /\ out_q = <<>>
  /\ Len(job_q) = JobQMax
  /\ pc = "publish"
  /\ attempted
  /\ ~accepted
  /\ ~has_fire

\* C23: the status dict after every iteration: has_smoke, smoke_consec and
\* has_fire are those of the frame just processed; fire_boxes and
\* fire_max_conf are the fire_hits and best_score of the latest successful
\* Result drained, also after an iteration that drained none.
StatusKeepsLastResult ==
  [][(pc = "publish" /\ pc' = "frame") =>
       /\ status'.has_smoke = smoke_confirmed
       /\ status'.smoke_consec = smoke_consec
       /\ status'.has_fire = has_fire
       /\ drained_ok => (status'.fire_boxes = fire_hit /\ status'.fire_max_conf = fire_best)
       /\ ~drained_ok => (status'.fire_boxes = status.fire_boxes
                          /\ status'.fire_max_conf = status.fire_max_conf)]_vars

\* the worker is stuck with a Job
Stalled == wpc = "stuck"

\* nothing is left of the worker's Results: out_q is empty and no hold runs
Quiet == out_q = <<>> /\ ~has_fire /\ fire_hold_until <= now

\* C24 as claimed: with the worker stuck, has_fire never goes from false to true
NoFireWhileStalled ==
  [][(Stalled /\ ~has_fire) => ~has_fire']_vars

\* C24 amended: with the worker stuck with a Job the loop still runs every step of
\* its iteration; the worker takes no Job and puts no Result; once out_q is
\* empty and no hold runs, has_fire stays false (a Result the worker put
\* before it got stuck can still start a hold); and once job_q holds a Job
\* every submission is dropped and status["last_fire_check"] keeps its value.
StallStarves ==
  /\ [](Stalled =>
          /\ pc = "frame" => ENABLED ProcessFrame(TRUE, 0, 0, TRUE)
          /\ pc = "drain" => ENABLED (DrainOne \/ DrainDone)
          /\ pc = "trigger" => ENABLED MainStep
          /\ pc = "publish" => ENABLED Publish)
  /\ [][Stalled =>
          (Stalled' /\ Len(out_q') <= Len(out_q) /\ Len(job_q') >= Len(job_q))]_vars
  /\ [][(Stalled /\ Quiet) => Quiet']_vars
  /\ [][(Stalled /\ Len(job_q) = JobQMax) =>
          (job_q' = job_q /\ status'.last_fire_check = status.last_fire_check)]_vars

\* C24 witness: the worker is stuck, job_q holds a later Job, and a
\* submission made after that was dropped: status["last_fire_check"] is older
\* than the iteration
StallStarvesSeen ==
  /\ Stalled
  /\ Len(job_q) = JobQMax
  /\ pc = "publish"
  /\ attempted
  /\ ~accepted
  /\ ~has_fire
  /\ status.last_fire_check # 0
  /\ status.last_fire_check < now

\* the parts of the state a failed read must leave alone
PipelineState ==
  <<smoke_consec, smoke_confirmed, smoke_alert_sent, ring, last_fire_check,
    fire_hold_until, last_fire_confirm, last_fire_snapshot, has_fire, job_q, out_q,
    status, tg, now>>

\* C26: a read of the camera that gives no frame does not end the loop, which
\* goes back to the read, and changes nothing else: the consecutive counter
\* (it is not put back to 0), the alert-sent flag, the ring, last_fire_check,
\* fire_hold_until, both queues and the status dict are as before.
FailedReadNoEffect ==
  /\ [](pc = "retry" => ENABLED Retry)
  /\ [][(pc = "frame" /\ pc' = "retry") => UNCHANGED PipelineState]_vars
  /\ [][(pc = "retry" /\ pc' # "retry") => (pc' = "frame" /\ UNCHANGED PipelineState)]_vars

\* C26 witness: a read failed in the middle of a run of smoke frames, with a
\* Result waiting in out_q
FailedReadNoEffectSeen ==
  /\ pc = "retry"
  /\ smoke_consec = SmokeConsecN - 1
  /\ ring > 0
  /\ out_q # <<>>

\* the worker finishes the Job it holds in this step
Processes == wpc = "process" /\ wpc' # "process"

\* C27: for every Job, the worker draws and writes the snapshot and calls
\* send_fire_alert exactly when a best detection exists, whatever fire_hits
\* is, and before it puts the Result; without a best detection it writes no
\* file, makes no call and reports no saved file.
SnapshotAndAlertIffBest ==
  [][Processes =>
       /\ out_q' = out_q
       /\ w_last'.done
       /\ w_last'.has_best => (w_last'.drawn /\ w_last'.called /\ wpc' = "put")
       /\ ~w_last'.has_best =>
            /\ ~w_last'.drawn
            /\ ~w_last'.called
            /\ snaps' = snaps
            /\ wpc' = "put"
            /\ wres'.saved = 0]_vars

\* the frames of the latest scored burst that have a qualifying detection
HitFrames == {k \in 1..Len(scored.outs) : scored.outs[k] > 0}

\* C28: fire_hits is the number of burst frames with at least one qualifying
\* detection; the best detection is the highest-scoring one of the whole
\* burst, from the earliest frame that has that score; and it exists exactly
\* when fire_hits is at least 1.
BestOfBurst ==
  scored.built =>
    /\ scored.hits = Cardinality(HitFrames)
    /\ scored.frame # 0 <=> scored.hits >= 1
    /\ scored.frame = 0 => scored.best = 0
    /\ scored.frame # 0 =>
         /\ scored.frame \in HitFrames
         /\ scored.best = scored.outs[scored.frame]
         /\ \A k \in HitFrames : scored.outs[k] <= scored.best
         /\ \A k \in HitFrames : k < scored.frame => scored.outs[k] < scored.best

\* C28 witness: the highest score occurs in two frames, after a frame with a
\* lower score; the best is the first of the two
BestOfBurstSeen ==
  /\ scored.built
  /\ scored.outs = <<40, 90, 90>>
  /\ scored.hits = 3
  /\ scored.best = 90
  /\ scored.frame = 2

\* C29: the alerter of the worker accepts a fire alert only with a confidence
\* of at least --telegram-min-conf and at least --telegram-fire-cooldown after
\* the fire alert it accepted before.
ConfiguredGovernsWorker ==
  [][(Processes /\ w_last'.ret) =>
       /\ wres'.best_score >= TelegramMinConf
       /\ w_acc = 0 \/ clock - w_acc >= TelegramFireCooldown]_vars

\* C30: only the files snap_0 .. snap_<count - 1> exist, and each of them
\* holds the image of the latest Job that had a best detection (the
\* placeholder before the first such Job).
SnapshotsShowLatest ==
  /\ DOMAIN snaps = Slots
  /\ \A i \in Slots : snaps[i] = (IF w_best_job = 0 THEN Placeholder ELSE w_best_job)

\* the keys the loop computes afresh on every iteration
TickKeys == {"has_smoke", "has_fire", "smoke_max_conf", "smoke_boxes",
             "smoke_consec", "timestamp"}

\* C31: what a request of /api/status serialises under the lock has its
\* per-tick keys from one iteration of the loop, so that has_smoke is
\* smoke_consec >= N and smoke_boxes > 0 exactly when smoke_consec > 0.
ReadIsOneTick ==
  seen.busy =>
    /\ \A j, k \in TickKeys : seen.at[j] = seen.at[k]
    /\ seen.doc.has_smoke = (seen.doc.smoke_consec >= SmokeConsecN)
    /\ (seen.doc.smoke_boxes > 0) = (seen.doc.smoke_consec > 0)

\* C31 witness: a request is served between two updates, after the loop has
\* moved on: it sees the confirmed smoke of the iteration before, while the
\* loop, on a frame without smoke, waits for the lock
ReadIsOneTickSeen ==
  /\ seen.busy
  /\ status_lock = "api"
  /\ pc = "publish"
  /\ smoke_consec = 0
  /\ seen.doc.has_smoke
  /\ seen.doc.smoke_consec = SmokeConsecN
  /\ seen.at["timestamp"] # 0

\* C32: once stop() has been called the sender thread ends, also when the
\* queue was full and the None could not be put; and once the thread has
\* ended it stays ended and no task is delivered any more.
StopTerminates ==
  /\ (stop_st.pc # "idle") ~> (spc = "done")
  /\ [][spc = "done" => (spc' = "done" /\ stask' = stask /\ Len(enq') >= Len(enq))]_vars

\* C32 witness: the thread has ended after a stop() whose put_nowait(None)
\* found the queue full, with tasks still in the queue
StopTerminatesSeen ==
  /\ stop_st.pc = "done"
  /\ stop_st.dropped
  /\ spc = "done"
  /\ tg.queue # <<>>
  /\ \A i \in 1..Len(tg.queue) : tg.queue[i] # Sentinel

\* the indices nms_xyxy returned, and the place of an index in the order
NmsKept == {nms.keep[k] : k \in 1..Len(nms.keep)}
NmsRank(i) == CHOOSE r \in 1..Len(nms.order) : nms.order[r] = i
\* the IoU of boxes i and j of the call is above the threshold
NmsOver(i, j) ==
  LET a == nms.boxes[i]
      b == nms.boxes[j]
  IN 100 * Inter(a, b) > nms.thr * (Area(a) + Area(b) - Inter(a, b))

\* C33: nms_xyxy is greedy in descending score order: it keeps the
\* top-scoring box, drops a box exactly when its IoU with a kept box ranked
\* before it is above the threshold (an equal IoU does not suppress), leaves
\* no two kept boxes with an IoU above the threshold, returns distinct indices
\* of the input, and returns at least one for a non-empty input.
NmsGreedy ==
  nms.built =>
    LET n == Len(nms.boxes) IN
    /\ NmsKept \subseteq 1..n
    /\ Cardinality(NmsKept) = Len(nms.keep)
    /\ \A r, q \in 1..n : r < q => nms.scores[nms.order[r]] >= nms.scores[nms.order[q]]
    /\ n > 0 =>
         /\ nms.keep # <<>>
         /\ nms.keep[1] = nms.order[1]
         /\ \A j \in 1..n : nms.scores[j] <= nms.scores[nms.keep[1]]
    /\ \A j \in 1..n :
         j \notin NmsKept <=>
           \E k \in NmsKept : NmsRank(k) < NmsRank(j) /\ NmsOver(k, j)
    /\ \A j, k \in NmsKept : j # k => ~NmsOver(j, k)

\* C33 witness: of three boxes the second one scores highest; the first has
\* an IoU with it that equals the threshold and is kept, the third an IoU
\* above the threshold and is dropped
NmsGreedySeen ==
  /\ nms.built
  /\ nms.boxes = <<(<<0, 0, 1, 0>>), (<<0, 0, 3, 0>>), (<<0, 0, 2, 0>>)>>
  /\ nms.scores = <<50, 90, 50>>
  /\ nms.thr = 50
  /\ nms.keep = <<2, 1>>

\* C34: of boxes with equal scores the one that comes first in the input is
\* ranked first, so of two such boxes with an IoU above the threshold the
\* later one is never kept in place of the earlier one.
FirstSeenWins ==
  nms.built =>
    \A i, j \in 1..Len(nms.boxes) :
      (i < j /\ nms.scores[i] = nms.scores[j]) =>
        /\ NmsRank(i) < NmsRank(j)
        /\ NmsOver(i, j) => ~(j \in NmsKept /\ i \notin NmsKept)

\* the loop takes a frame through the smoke gate and the smoke alert
Gates == pc = "frame" /\ pc' = "drain"

\* C35: a frame with smoke that finds smoke_alert_sent set makes no attempt
\* and leaves the flag set; a frame without smoke clears it; a confirmed
\* frame on which the flag is clear makes an attempt, and the flag is set
\* exactly when that attempt is accepted; so a run of frames with smoke has
\* at most one accepted alert.
OneAlertPerRun ==
  [][Gates =>
       LET held == smoke_boxes' > 0 /\ smoke_alert_sent IN
       /\ held => (~alert_tried' /\ smoke_alert_sent')
       /\ smoke_boxes' = 0 => (~alert_tried' /\ ~smoke_alert_sent' /\ run_alerts' = 0)
       /\ (smoke_confirmed' /\ ~held) => alert_tried'
       /\ alert_tried' => (smoke_confirmed' /\ ~held)
       /\ smoke_alert_sent' <=> (held \/ alert_ret')
       /\ run_alerts' <= 1]_vars

\* C35 witness: a frame of the run after the one whose alert was accepted:
\* the flag is set and no attempt was made
OneAlertPerRunSeen ==
  /\ pc = "drain"
  /\ smoke_consec > SmokeConsecN
  /\ smoke_alert_sent
  /\ run_alerts = 1
  /\ ~alert_tried
  /\ ~alert_ret

\* the most frames a burst can have
MaxBurst == Max(args.burst_frames, 1)

\* C36: a Job carries at most max(burst_frames, 1) frames and the fire_hits
\* of its Result is at most the number of its frames; so with --fire-confirm
\* above max(burst_frames, 1) the hold is never started and has_fire is never
\* true.
HitsWithinBurst ==
  /\ \A i \in 1..Len(job_q) : job_q[i].rois_jpeg <= MaxBurst
  /\ wpc \in {"process", "put"} => wjob.rois_jpeg <= MaxBurst
  /\ wpc = "put" => (wres.ok /\ wres.fire_hits <= wjob.rois_jpeg)
  /\ \A i \in 1..Len(out_q) : out_q[i].ok => out_q[i].fire_hits <= MaxBurst
  /\ args.fire_confirm > MaxBurst =>
       (fire_hold_until = 0 /\ last_fire_confirm = 0 /\ ~has_fire /\ ~status.has_fire)

\* C36 witness: with --burst-frames 1 and --fire-confirm 2 the loop has
\* drained a Result whose only frame showed fire, and holds no fire
HitsWithinBurstSeen ==
  /\ args.burst_frames = 1
  /\ args.fire_confirm = 2
  /\ pc = "trigger"
  /\ drained_ok
  /\ fire_hit = 1
  /\ fire_best > 0
  /\ ~has_fire

\* C37: the loop drains the successful Results in the order in which job_q
\* took their Jobs: each carries the meta of the oldest Job taken whose
\* Result is still due, and none is drained before the time of the iteration
\* that submitted its Job.
ResultsInJobOrder ==
  [][(Drains /\ Head(out_q).ok) =>
       /\ j_owed # <<>>
       /\ Head(out_q).meta.ts = Head(j_owed)
       /\ Head(out_q).meta.ts <= now
       /\ \A i \in 2..Len(j_owed) : j_owed[i] > Head(j_owed)]_vars

\* C37 witness: the Results of two Jobs wait in out_q, the older one first,
\* and the loop is about to drain them
ResultsInJobOrderSeen ==
  /\ pc = "drain"
  /\ Len(out_q) = 2
  /\ out_q[1].ok
  /\ out_q[2].ok
  /\ j_owed = <<out_q[1].meta.ts, out_q[2].meta.ts>>
  /\ out_q[1].meta.ts < out_q[2].meta.ts

\* ------------------------------------------------------------------ C38
\* C38: the poller pauses the mission for smoke only when the mission is
\* started and not yet paused by smoke, the last
\* SMOKE_PAUSE_CONSECUTIVE_POLLS answered polls in a row each reported smoke
\* without fire at SMOKE_PAUSE_MIN_CONF or more, and
\* SMOKE_PAUSE_COOLDOWN_SEC or more have passed since the previous pause; an
\* answered poll that reports anything else leaves the counter at 0
PauseStep == ~paused_by_smoke /\ paused_by_smoke'

IndexHeldWhilePaused ==
  [][(paused_by_smoke /\ paused_by_smoke') => current_wp_index' <= current_wp_index]_vars

\* ------------------------------------------------------------------ C40
\* C40: an alert is pushed only with a confidence above 0, only for a window
\* that has been open for ALERT_WINDOW_SEC and that the push closes, and with
\* the highest confidence of the events seen in that window; a poll that
\* reports smoke or fire with confidence 0 opens no window and sets neither
\* flag; a window of type FIRE never becomes one of type SMOKE
PollStep == clock' > clock /\ polled'.answered

AlertCarriesHighest ==
  [][/\ (PollStep /\ polled'.pushed) =>
          /\ polled'.conf > 0
          /\ alert_window.start_ts # 0
          /\ clock' - alert_window.start_ts >= AlertWindowSec
          /\ alert_window' = NoWindow
          /\ polled'.conf = polled'.top
     /\ (PollStep /\ polled'.zero) =>
          /\ ~(alert_window.start_ts = 0 /\ alert_window'.start_ts # 0)
          /\ last_fire_flag' => last_fire_flag
          /\ last_smoke_flag' => last_smoke_flag
     /\ alert_window.type = "FIRE" => alert_window'.type \in {"FIRE", "none"}
    ]_vars

====
